---- MODULE Spec2Model ----
(***************************************************************************)
(* A model of the `under` HTTP router: path templates compiled to          *)
(* anchored patterns, the route table with its combined matcher, lookup,   *)
(* and the middleware chain that Router::apply drives.                     *)
(*                                                                         *)
(* Strings are sequences of one-character strings.  A compiled regular     *)
(* expression is the sequence of items its text denotes: a literal         *)
(* character or a capture group of one of the placeholder types.           *)
(***************************************************************************)
EXTENDS Integers, Sequences, FiniteSets, TLC

VARIABLES
    routes,       \* Router.routes: Vec<Arc<Route>>, in registration order
    regex,        \* Router.regex: the RegexSet built by the last prepare()
    middleware,   \* Router.middleware: Vec<Pin<Box<dyn Middleware>>>
    fallback,     \* Router.fallback: Option<endpoint>
    panicked,     \* a registration panicked (unwrap / panic! in Pattern::new)
    prepared,     \* history: prepare() has been called at least once
    visible,      \* history: Len(routes) at the most recent prepare()
    prepareRun,   \* history: prepare() calls since the last registration: 0, 1, 2 = more
    found,        \* the last lookup() call: its arguments and the route it returned
    pc,           \* position of the request being handled by Router::apply
    request,      \* the request in flight (path, method, extensions)
    next,         \* the Next view the chain is at: remaining middleware, endpoint
    stack,        \* middleware awaiting the result of their next.apply(..) call
    ret,          \* the Result travelling back up the chain
    response,     \* what Router::apply returned to its invoker
    log,          \* history: the steps of the request in flight, in order
    fragmentRuns, \* history: the Fragment::new calls made for the request in flight
    selected,     \* the last fragment_str(key) call of the running endpoint
    tasks,        \* the requests the service handles concurrently, one per task
    server,       \* Router.terminate, its watch channels, and the position of listen()
    stream,       \* a DataStream / StreamReader over a body, and what was read from it
    probe         \* the last call of a function of the library: arguments and result

vars == <<routes, regex, middleware, fallback, panicked, prepared, visible,
          prepareRun, found, pc, request, next, stack, ret, response, log,
          fragmentRuns, selected, tasks, server, stream, probe>>

routerVars == <<routes, regex, middleware, fallback, panicked, prepared, visible, prepareRun>>
requestVars == <<pc, request, next, stack, ret, response, log>>
sideVars == <<fragmentRuns, selected, tasks, server, stream, probe>>

-----------------------------------------------------------------------------
(* Characters and strings *)

Lower == {"a","b","c","d","e","f","g","h","i","j","k","l","m",
          "n","o","p","q","r","s","t","u","v","w","x","y","z"}
Upper == {"A","B","C","D","E","F","G","H","I","J","K","L","M",
          "N","O","P","Q","R","S","T","U","V","W","X","Y","Z"}
Alpha == Lower \cup Upper
Digit == {"0","1","2","3","4","5","6","7","8","9"}
Hex == Digit \cup {"a","b","c","d","e","f","A","B","C","D","E","F"}

\* Option<T>: None is the empty sequence, Some(v) the one-element sequence.
None == <<>>
Some(v) == <<v>>

\* The number of consecutive characters of s, from position q on, that are in set.
RECURSIVE Span(_, _, _)
Span(s, q, set) ==
    IF q <= Len(s) /\ s[q] \in set THEN 1 + Span(s, q + 1, set) ELSE 0

-----------------------------------------------------------------------------
(* router/pattern.rs: the template compiler *)

\* PATTERN = \{(?P<name>[a-zA-Z]+)?(?::(?P<pattern>[a-zA-Z]+))?\} matched at
\* position p of s: the captures and the position of the closing brace, or
\* found = FALSE when PATTERN does not match there.
PATTERN(s, p) ==
    IF p > Len(s) \/ s[p] # "{"
    THEN [found |-> FALSE, name |-> None, pattern |-> None, end |-> 0]
    ELSE LET n == Span(s, p + 1, Alpha)
             q == p + 1 + n
             t == IF q <= Len(s) /\ s[q] = ":" THEN Span(s, q + 1, Alpha) ELSE 0
             r == IF t > 0 THEN q + 1 + t ELSE q
         IN  IF r <= Len(s) /\ s[r] = "}"
             THEN [found |-> TRUE,
                   name |-> IF n > 0 THEN Some(SubSeq(s, p + 1, p + n)) ELSE None,
                   pattern |-> IF t > 0 THEN Some(SubSeq(s, q + 1, q + t)) ELSE None,
                   end |-> r]
             ELSE [found |-> FALSE, name |-> None, pattern |-> None, end |-> 0]

\* push_pattern with a string sub-pattern for every type it does not know.
push_pattern_lenient(name, pattern) ==
    IF pattern = Some(<<"o","e","x","t">>) THEN [kind |-> "oext", ch |-> "", name |-> name]
    ELSE IF pattern = Some(<<"i","n","t">>) THEN [kind |-> "int", ch |-> "", name |-> name]
    ELSE IF pattern = Some(<<"u","i","n","t">>) THEN [kind |-> "uint", ch |-> "", name |-> name]
    ELSE IF pattern = Some(<<"p","a","t","h">>) THEN [kind |-> "path", ch |-> "", name |-> name]
    ELSE IF pattern = Some(<<"u","u","i","d">>) THEN [kind |-> "uuid", ch |-> "", name |-> name]
    ELSE [kind |-> "str", ch |-> "", name |-> name]

\* push_pattern: the sub-pattern of one placeholder; kind "panic" is the
\* panic!("unknown path pattern type") arm.
push_pattern(name, pattern) ==
    IF pattern = Some(<<"o","e","x","t">>) THEN [kind |-> "oext", ch |-> "", name |-> name]
    ELSE IF pattern = Some(<<"i","n","t">>) THEN [kind |-> "int", ch |-> "", name |-> name]
    ELSE IF pattern = Some(<<"u","i","n","t">>) THEN [kind |-> "uint", ch |-> "", name |-> name]
    ELSE IF pattern = Some(<<"p","a","t","h">>) THEN [kind |-> "path", ch |-> "", name |-> name]
    ELSE IF pattern = Some(<<"u","u","i","d">>) THEN [kind |-> "uuid", ch |-> "", name |-> name]
    ELSE IF \/ pattern = Some(<<"s","t","r">>)
            \/ pattern = Some(<<"s">>)
            \/ pattern = Some(<<"s","t","r","i","n","g">>)
            \/ pattern = None
         THEN [kind |-> "str", ch |-> "", name |-> name]
    ELSE [kind |-> "panic", ch |-> "", name |-> name]

\* regex::escape of one literal character: an item matching exactly it.
Literal(c) == [kind |-> "lit", ch |-> c, name |-> None]

\* regex_pattern: the items between the anchors ^ and $, scanning the template
\* left to right as PATTERN.find_iter does (leftmost, non-overlapping).
RECURSIVE regex_items(_, _)
regex_items(path, p) ==
    IF p > Len(path) THEN <<>>
    ELSE LET m == PATTERN(path, p)
         IN  IF m.found
             THEN <<push_pattern(m.name, m.pattern)>> \o regex_items(path, m.end + 1)
             ELSE <<Literal(path[p])>> \o regex_items(path, p + 1)

regex_pattern(path) == regex_items(path, 1)

\* The capture names of a compiled pattern, slot 0 (the whole match) first.
capture_names(items) ==
    <<None>> \o [i \in 1..Len(SelectSeq(items, LAMBDA it: it.kind # "lit")) |->
                    SelectSeq(items, LAMBDA it: it.kind # "lit")[i].name]

\* Pattern::new: Regex::new(..).unwrap() and the match keys.  It panics when
\* push_pattern panics, and when Regex::new rejects the text, which it does for
\* a capture name used twice.
Pattern_new(prefix) ==
    LET items == regex_pattern(prefix)
        keys == capture_names(items)
        unknown == \E i \in 1..Len(items): items[i].kind = "panic"
        duplicate == \E i, j \in 1..Len(keys): i < j /\ keys[i] # None /\ keys[i] = keys[j]
    IN  [ok |-> ~unknown /\ ~duplicate, regex |-> items, match_keys |-> keys]

-----------------------------------------------------------------------------
(* Matching a compiled pattern: ^ items $ against a whole path *)

\* UUID_PATTERN: 8-4-4-4-12 hexadecimal digits, the third block starting with
\* 4 and the fourth with one of 8 9 a A b B.
UUID_PATTERN(s) ==
    /\ Len(s) = 36
    /\ \A i \in {9, 14, 19, 24}: s[i] = "-"
    /\ s[15] = "4"
    /\ s[20] \in {"8","9","a","A","b","B"}
    /\ \A i \in (1..36) \ {9, 14, 15, 19, 20, 24}: s[i] \in Hex

\* Whether the text s is in the language of a group of the given kind.
InClass(kind, s) ==
    CASE kind = "str"  -> Len(s) >= 1 /\ \A i \in 1..Len(s): s[i] # "/"
      [] kind = "uint" -> Len(s) >= 1 /\ \A i \in 1..Len(s): s[i] \in Digit
      [] kind = "int"  -> LET d == IF Len(s) >= 1 /\ s[1] \in {"+","-"} THEN 2 ELSE 1
                          IN  Len(s) >= d /\ \A i \in d..Len(s): s[i] \in Digit
      [] kind = "path" -> Len(s) >= 1 /\ \A i \in 1..Len(s): s[i] # "\n"
      [] kind = "uuid" -> UUID_PATTERN(s)
      [] OTHER -> FALSE

\* The positions e at which a group of the given kind, starting at j, can end.
GroupEnds(kind, path, j) ==
    {e \in j..Len(path): InClass(kind, SubSeq(path, j, e))}

\* The match of items k.. with the optional extension made mandatory.
RECURSIVE MatchAt_required(_, _, _, _)
MatchAt_required(items, k, path, j) ==
    IF k > Len(items) THEN j = Len(path) + 1
    ELSE LET it == items[k]
         IN  CASE it.kind = "lit" ->
                    j <= Len(path) /\ path[j] = it.ch /\ MatchAt_required(items, k + 1, path, j + 1)
               [] it.kind = "oext" ->
                    /\ j <= Len(path) /\ path[j] = "."
                    /\ \E e \in GroupEnds("str", path, j + 1): MatchAt_required(items, k + 1, path, e + 1)
               [] OTHER ->
                    \E e \in GroupEnds(it.kind, path, j): MatchAt_required(items, k + 1, path, e + 1)

\* Whether items k.. match path from position j to its end (the $ anchor).
RECURSIVE MatchAt(_, _, _, _)
MatchAt(items, k, path, j) ==
    IF k > Len(items) THEN j = Len(path) + 1
    ELSE LET it == items[k]
         IN  CASE it.kind = "lit" ->
                    j <= Len(path) /\ path[j] = it.ch /\ MatchAt(items, k + 1, path, j + 1)
               [] it.kind = "oext" ->
                    \/ /\ j <= Len(path) /\ path[j] = "."
                       /\ \E e \in GroupEnds("str", path, j + 1): MatchAt(items, k + 1, path, e + 1)
                    \/ MatchAt(items, k + 1, path, j)
               [] OTHER ->
                    \E e \in GroupEnds(it.kind, path, j): MatchAt(items, k + 1, path, e + 1)

\* Regex::is_match of the pattern without its anchors ^ and $: some part of
\* the path matches.
is_match_unanchored(items, path) ==
    \E a \in 1..(Len(path) + 1), b \in 0..Len(path):
        a <= b + 1 /\ MatchAt(items, 1, SubSeq(path, a, b), 1)

\* Regex::is_match of an anchored pattern.
is_match(items, path) == MatchAt(items, 1, path, 1)

Max(S) == CHOOSE x \in S: \A y \in S: y <= x

\* Regex::captures of items k.. from position j: one Option<Range> per group, in
\* template order.  Every group is greedy: it takes the longest text that lets
\* the rest of the pattern match, and the optional extension is taken when it can be.
RECURSIVE CapturesAt(_, _, _, _)
CapturesAt(items, k, path, j) ==
    IF k > Len(items) THEN <<>>
    ELSE LET it == items[k]
         IN  CASE it.kind = "lit" -> CapturesAt(items, k + 1, path, j + 1)
               [] it.kind = "oext" ->
                    LET ends == IF j <= Len(path) /\ path[j] = "."
                                THEN {e \in GroupEnds("str", path, j + 1):
                                        MatchAt(items, k + 1, path, e + 1)}
                                ELSE {}
                    IN  IF ends # {}
                        THEN <<Some(<<j + 1, Max(ends)>>)>> \o CapturesAt(items, k + 1, path, Max(ends) + 1)
                        ELSE <<None>> \o CapturesAt(items, k + 1, path, j)
               [] OTHER ->
                    LET ends == {e \in GroupEnds(it.kind, path, j):
                                    MatchAt(items, k + 1, path, e + 1)}
                    IN  <<Some(<<j, Max(ends)>>)>> \o CapturesAt(items, k + 1, path, Max(ends) + 1)

\* Regex::captures: None when the pattern does not match, else slot 0 (the
\* whole match) followed by the groups.
captures(items, path) ==
    IF is_match(items, path)
    THEN Some(<<Some(<<1, Len(path)>>)>> \o CapturesAt(items, 1, path, 1))
    ELSE None

\* RegexSet::matches: the indices of the patterns of the set that match path.
RegexSet_matches(set, path) == {i \in 1..Len(set): is_match(set[i], path)}

-----------------------------------------------------------------------------
(* router/mod.rs, router/route.rs: the route table *)

\* join_paths putting the two texts one after the other as they are.
join_paths_plain(base, extend) == base \o extend

\* join_paths(base, extend); base is "" or starts with "/".
join_paths(base, extend) ==
    LET baseEnds == Len(base) > 0 /\ base[Len(base)] = "/"
        extendStarts == Len(extend) > 0 /\ extend[1] = "/"
    IN  IF baseEnds /\ extendStarts THEN base \o SubSeq(extend, 2, Len(extend))
        ELSE IF baseEnds \/ extendStarts THEN base \o extend
        ELSE base \o <<"/">> \o extend

\* Router::at(prefix): the prefix of the Path it creates.
Router_at(prefix) == join_paths(<<>>, prefix)

\* Route::matches with the method comparison left out.
Route_matches_any(route, method) == TRUE

\* Route::matches(method)
Route_matches(route, method) ==
    route.method = None \/ route.method = Some(method)

\* What indexing self.routes out of bounds gives: a panic.
IndexPanic == <<"panic", "index out of bounds">>

\* Router::lookup taking the first eligible match (next) instead of the last.
lookup_first(set, table, path, method) ==
    LET matched == RegexSet_matches(set, path)
        eligible == {i \in matched: i <= Len(table) /\ Route_matches(table[i], method)}
    IN  IF \E i \in matched: i > Len(table) THEN IndexPanic
        ELSE IF eligible = {} THEN None
        ELSE Some(CHOOSE i \in eligible: \A j \in eligible: i <= j)

\* Router::lookup matching every route's own pattern instead of the RegexSet.
lookup_each_route(set, table, path, method) ==
    LET eligible == {i \in 1..Len(table): /\ is_match(table[i].pattern.regex, path)
                                          /\ Route_matches(table[i], method)}
    IN  IF eligible = {} THEN None ELSE Some(Max(eligible))

\* Router::lookup over a RegexSet and a route table: the matched indices are
\* walked from the back (next_back), each mapped to self.routes[i] and filtered
\* by Route::matches.  The result is the position of the route in the table.
lookup(set, table, path, method) ==
    LET matched == RegexSet_matches(set, path)
        eligible == {i \in matched: i <= Len(table) /\ Route_matches(table[i], method)}
    IN  IF \E i \in matched: i > Len(table) THEN IndexPanic
        ELSE IF eligible = {} THEN None
        ELSE Some(Max(eligible))

-----------------------------------------------------------------------------
(* Inputs *)

MaxRoutes == 2

\* The prefixes handed to Router::at.
Prefixes == { <<"/","u","s","e","r","/","{","i","d","}">>,
              <<"/","u","s","e","r","/","@","m","e">>,
              <<"a","l","p","h","a">> }

\* The method filter of a registration: Path::all, or Path::get / Path::post.
RouteMethods == {None, Some("GET"), Some("POST")}

\* Request paths and methods; TEST is a non-standard method.
Paths == { <<"/","u","s","e","r","/","@","m","e">>,
           <<"/","u","s","e","r","/","7">>,
           <<"/","a","l","p","h","a">>,
           <<"/","o","m","e","g","a","/","a","a","a">> }
Methods == {"GET", "POST", "TEST"}

-----------------------------------------------------------------------------
(* The router's state machine *)

NoRequest == [path |-> <<>>, method |-> "", route |-> None, fragment |-> None, peer |-> FALSE]
NoLookup == [path |-> <<>>, method |-> "", route |-> None]
NoNext == [middleware |-> <<>>, endpoint |-> [kind |-> "none", id |-> 0]]
NoSelect == [key |-> None, value |-> None]
NoTask == [pc |-> "idle", request |-> NoRequest, extensions |-> <<>>,
           next |-> NoNext, stack |-> <<>>, ret |-> None]
NoServer == [pc |-> "config", terminate |-> None, rx |-> None, channels |-> <<>>]
NoStream == [pc |-> "closed", body |-> <<>>, state |-> <<"Pending">>, limit |-> None,
             out |-> <<>>, result |-> None, source |-> <<>>, take |-> None]
NoProbe == [call |-> "", args |-> <<>>, result |-> None]

\* The number of tasks the service runs at once.
MaxTasks == 2

\* Router::default()
Init ==
    /\ routes = <<>>
    /\ regex = <<>>
    /\ middleware = <<>>
    /\ fallback = None
    /\ panicked = FALSE
    /\ prepared = FALSE
    /\ visible = 0
    /\ prepareRun = 0
    /\ found = NoLookup
    /\ pc = "idle"
    /\ request = NoRequest
    /\ next = NoNext
    /\ stack = <<>>
    /\ ret = None
    /\ response = None
    /\ log = <<>>
    /\ fragmentRuns = 0
    /\ selected = NoSelect
    /\ tasks = [t \in 1..MaxTasks |-> NoTask]
    /\ server = NoServer
    /\ stream = NoStream
    /\ probe = NoProbe

\* The process is alive, no request in flight borrows the router and listen()
\* has not taken it.
Free ==
    /\ pc = "idle" /\ ~panicked /\ \A t \in DOMAIN tasks: tasks[t].pc = "idle"
    /\ server.pc = "config"

\* Router::at(prefix) followed by Path::all / Path::method: create_pattern, then
\* push the route.  A panic in Pattern::new leaves the table as it was.
Register(max, prefixes) ==
    \E prefix \in prefixes, method \in RouteMethods:
        /\ Free
        /\ Len(routes) < max
        /\ LET path == Router_at(prefix)
               pattern == Pattern_new(path)
           IN  IF pattern.ok
               THEN /\ routes' = Append(routes, [path |-> path, pattern |-> pattern,
                                                 method |-> method,
                                                 endpoint |-> [kind |-> "route", id |-> Len(routes) + 1]])
                    /\ prepareRun' = 0
                    /\ UNCHANGED panicked
               ELSE /\ panicked' = TRUE
                    /\ UNCHANGED <<routes, prepareRun>>
        /\ UNCHANGED <<regex, middleware, fallback, prepared, visible, found>>
        /\ UNCHANGED sideVars
        /\ UNCHANGED requestVars

\* Router::at(prefix) followed by Path::all alone: a route for every method.
RegisterAll(max, prefixes) ==
    \E prefix \in prefixes:
        /\ Free
        /\ Len(routes) < max
        /\ LET path == Router_at(prefix)
               pattern == Pattern_new(path)
           IN  IF pattern.ok
               THEN /\ routes' = Append(routes, [path |-> path, pattern |-> pattern,
                                                 method |-> None,
                                                 endpoint |-> [kind |-> "route", id |-> Len(routes) + 1]])
                    /\ prepareRun' = 0
                    /\ UNCHANGED panicked
               ELSE /\ panicked' = TRUE
                    /\ UNCHANGED <<routes, prepareRun>>
        /\ UNCHANGED <<regex, middleware, fallback, prepared, visible, found>>
        /\ UNCHANGED requestVars
        /\ UNCHANGED sideVars

\* Router::prepare building the RegexSet only the first time it is called.
Prepare_cached ==
    /\ Free
    /\ regex' = IF prepared THEN regex ELSE [i \in 1..Len(routes) |-> routes[i].pattern.regex]
    /\ prepared' = TRUE
    /\ visible' = Len(routes)
    /\ prepareRun' = IF prepareRun < 2 THEN prepareRun + 1 ELSE 2
    /\ UNCHANGED <<routes, middleware, fallback, panicked, found>>
    /\ UNCHANGED sideVars
    /\ UNCHANGED requestVars

\* Router::prepare adding the patterns to the RegexSet it already holds.
Prepare_appending ==
    /\ Free
    /\ regex' = regex \o [i \in 1..Len(routes) |-> routes[i].pattern.regex]
    /\ prepared' = TRUE
    /\ visible' = Len(routes)
    /\ prepareRun' = IF prepareRun < 2 THEN prepareRun + 1 ELSE 2
    /\ UNCHANGED <<routes, middleware, fallback, panicked, found>>
    /\ UNCHANGED sideVars
    /\ UNCHANGED requestVars

\* Router::prepare: rebuild the RegexSet from every registered route's pattern.
Prepare ==
    /\ Free
    /\ regex' = [i \in 1..Len(routes) |-> routes[i].pattern.regex]
    /\ prepared' = TRUE
    /\ visible' = Len(routes)
    /\ prepareRun' = IF prepareRun < 2 THEN prepareRun + 1 ELSE 2
    /\ UNCHANGED <<routes, middleware, fallback, panicked, found>>
    /\ UNCHANGED sideVars
    /\ UNCHANGED requestVars

\* A call of Router::lookup(path, method).
Lookup ==
    \E path \in Paths, method \in Methods:
        /\ Free
        /\ found' = [path |-> path, method |-> method,
                     route |-> lookup(regex, routes, path, method)]
        /\ UNCHANGED routerVars
        /\ UNCHANGED requestVars
        /\ UNCHANGED sideVars

Next == Register(MaxRoutes, Prefixes) \/ Prepare \/ Lookup

Spec == Init /\ [][Next]_vars

-----------------------------------------------------------------------------
(* request/fragment.rs, middleware/mod.rs, Router::apply: handling a request *)

\* Fragment::new(path, route): None when the route's pattern does not capture
\* the path; else the path, the range of every capture slot, and the ranges of
\* the named slots by name.
Fragment_new(path, route) ==
    LET caps == captures(route.pattern.regex, path)
        keys == route.pattern.match_keys
    IN  IF caps = None THEN None
        ELSE Some([base |-> path,
                   fragments_index |-> caps[1],
                   fragments_hash |-> {<<keys[i][1], caps[1][i]>> : i \in {k \in 1..Len(keys): keys[k] # None}}])

\* A Result<Response, anyhow::Error>: a response with its status, or an error;
\* `by` is the step that produced it (0 the endpoint, k > 0 middleware k).
Ok(status, by) == [ok |-> TRUE, status |-> status, by |-> by]
Err(by) == [ok |-> FALSE, status |-> 0, by |-> by]

\* The statuses of the model's responses.
NO_CONTENT == 204
SEE_OTHER == 303
NOT_FOUND == 404
INTERNAL_SERVER_ERROR == 500

\* default_endpoint(): DEFAULT_ENDPOINT, answering Response::empty_500().
default_endpoint == [kind |-> "default", id |-> 0]

\* What an endpoint can return when applied: the application's route and
\* fallback endpoints succeed or fail, the default endpoint answers 500.
EndpointResults(endpoint) ==
    CASE endpoint.kind = "route"    -> {Ok(NO_CONTENT, 0), Err(0)}
      [] endpoint.kind = "fallback" -> {Ok(NOT_FOUND, 0), Err(0)}
      [] OTHER                      -> {Ok(INTERNAL_SERVER_ERROR, 0)}

\* Bounds and inputs of the two request-handling specifications: the chain
\* alone, on a router with no routes, and the whole of Router::apply.
MaxMiddleware == 3
MaxApplyRoutes == 1
MaxApplyMiddleware == 1
ChainPaths == { <<"/","a","l","p","h","a">> }
ChainMethods == {"GET"}
ApplyPrefixes == { <<"a","l","p","h","a">>, <<"/","u","s","e","r","/","{","i","d","}">> }
ApplyPaths == { <<"/","a","l","p","h","a">>, <<"/","o","m","e","g","a","/","a","a","a">> }
ApplyMethods == {"GET", "POST"}

\* TraceMiddleware, which forwards and returns what it got, and a middleware of
\* the application, which may do either and may replace the result.
MiddlewareKinds == {"trace", "user"}

\* Router::with(middleware)
With(max) ==
    \E kind \in MiddlewareKinds:
        /\ Free
        /\ Len(middleware) < max
        /\ middleware' = Append(middleware, [id |-> Len(middleware) + 1, kind |-> kind])
        /\ UNCHANGED <<routes, regex, fallback, panicked, prepared, visible, prepareRun, found>>
        /\ UNCHANGED sideVars
        /\ UNCHANGED requestVars

\* Router::fallback(endpoint)
Fallback ==
    /\ Free
    /\ fallback' = Some([kind |-> "fallback", id |-> 0])
    /\ UNCHANGED <<routes, regex, middleware, panicked, prepared, visible, prepareRun, found>>
    /\ UNCHANGED sideVars
    /\ UNCHANGED requestVars

\* Router::apply's choice of endpoint with the fallback left out.
select_endpoint_no_fallback(route) ==
    IF route # None THEN routes[route[1]].endpoint ELSE default_endpoint

\* Router::apply's choice of endpoint: the route's, or else the fallback, or
\* else the default endpoint.
select_endpoint(route) ==
    IF route # None THEN routes[route[1]].endpoint
    ELSE IF fallback # None THEN fallback[1]
    ELSE default_endpoint

\* Router::apply moving the router's middleware into the Next view it builds,
\* instead of borrowing them.
Apply_draining(paths, methods) ==
    \E path \in paths, method \in methods, peer \in BOOLEAN:
        LET route == lookup(regex, routes, path, method)
        IN  /\ Free
            /\ route # IndexPanic
            /\ request' = [path |-> path, method |-> method, peer |-> peer,
                           route |-> route,
                           fragment |-> IF route = None THEN None
                                        ELSE Fragment_new(path, routes[route[1]])]
            /\ next' = [middleware |-> middleware, endpoint |-> select_endpoint(route)]
            /\ middleware' = <<>>
            /\ pc' = "chain"
            /\ stack' = <<>>
            /\ ret' = None
            /\ response' = None
            /\ log' = <<>>
            /\ fragmentRuns' = IF route = None THEN 0 ELSE 1
            /\ UNCHANGED <<routes, regex, fallback, panicked, prepared, visible, prepareRun, found>>
            /\ UNCHANGED <<selected, tasks, server, stream, probe>>

\* Router::apply up to next.apply(request), entered through Router::handle or
\* through RouterService::call (which first attaches the peer address): lookup,
\* attach the fragment and the route, choose the endpoint, build the Next view.
Apply(paths, methods) ==
    \E path \in paths, method \in methods, peer \in BOOLEAN:
        LET route == lookup(regex, routes, path, method)
        IN  /\ Free
            /\ IF route = IndexPanic
               THEN /\ panicked' = TRUE
                    /\ UNCHANGED requestVars
                    /\ UNCHANGED fragmentRuns
               ELSE /\ request' = [path |-> path, method |-> method, peer |-> peer,
                                   route |-> route,
                                   fragment |-> IF route = None THEN None
                                                ELSE Fragment_new(path, routes[route[1]])]
                    /\ next' = [middleware |-> middleware, endpoint |-> select_endpoint(route)]
                    /\ pc' = "chain"
                    /\ stack' = <<>>
                    /\ ret' = None
                    /\ response' = None
                    /\ log' = <<>>
                    /\ fragmentRuns' = IF route = None THEN 0 ELSE 1
                    /\ UNCHANGED panicked
            /\ UNCHANGED <<routes, regex, middleware, fallback, prepared, visible, prepareRun, found>>
            /\ UNCHANGED <<selected, tasks, server, stream, probe>>

\* A step of the request in flight, as the history records it: the request
\* side of a middleware that forwards ("request") or that returns without
\* forwarding ("stop"), the endpoint ("endpoint"), the response side of a
\* middleware ("response"); `got` is the Result its apply call returned to it
\* and `gave` the Result the step returned.
Event(step, id, got, gave) == [step |-> step, id |-> id, got |-> got, gave |-> gave]

\* What a middleware of the application can return of its own.
OwnResults(current) == {Ok(SEE_OTHER, current.id), Err(current.id)}

\* Next::apply with middleware remaining, taking the last of them as the
\* current one instead of the first.
Forward_split_last ==
    /\ pc = "chain" /\ next.middleware # <<>>
    /\ LET current == next.middleware[Len(next.middleware)]
       IN  /\ log' = Append(log, Event("request", current.id, None, None))
           /\ stack' = Append(stack, current)
    /\ next' = [next EXCEPT !.middleware = SubSeq(next.middleware, 1, Len(next.middleware) - 1)]
    /\ UNCHANGED <<pc, request, ret, response, found>>
    /\ UNCHANGED sideVars
    /\ UNCHANGED routerVars

\* Next::apply with middleware remaining: split off the first, which runs its
\* request side and calls apply on the view of the rest.
Forward ==
    /\ pc = "chain" /\ next.middleware # <<>>
    /\ LET current == Head(next.middleware)
       IN  /\ log' = Append(log, Event("request", current.id, None, None))
           /\ stack' = Append(stack, current)
    /\ next' = [next EXCEPT !.middleware = Tail(next.middleware)]
    /\ UNCHANGED <<pc, request, ret, response, found>>
    /\ UNCHANGED sideVars
    /\ UNCHANGED routerVars

\* A middleware returning of its own, after which the chain goes on to the
\* rest of the view all the same.
ShortCircuit_continues ==
    /\ pc = "chain" /\ next.middleware # <<>>
    /\ LET current == Head(next.middleware)
       IN  /\ current.kind = "user"
           /\ \E r \in OwnResults(current):
                /\ ret' = Some(r)
                /\ log' = Append(log, Event("stop", current.id, None, Some(r)))
    /\ next' = [next EXCEPT !.middleware = Tail(next.middleware)]
    /\ UNCHANGED <<pc, request, stack, response, found>>
    /\ UNCHANGED sideVars
    /\ UNCHANGED routerVars

\* Next::apply with middleware remaining, the first of which returns a response
\* or an error of its own without calling apply on the view it was given.
ShortCircuit ==
    /\ pc = "chain" /\ next.middleware # <<>>
    /\ LET current == Head(next.middleware)
       IN  /\ current.kind = "user"
           /\ \E r \in OwnResults(current):
                /\ ret' = Some(r)
                /\ log' = Append(log, Event("stop", current.id, None, Some(r)))
    /\ pc' = "returning"
    /\ UNCHANGED <<request, next, stack, response, found>>
    /\ UNCHANGED sideVars
    /\ UNCHANGED routerVars

\* Next::apply with no middleware remaining: the endpoint is applied.
EndpointApply ==
    /\ pc = "chain" /\ next.middleware = <<>>
    /\ next.endpoint.kind \notin {"scope", "router"}
    /\ \E r \in EndpointResults(next.endpoint):
         /\ ret' = Some(r)
         /\ log' = Append(log, Event("endpoint", 0, None, Some(r)))
    /\ pc' = "returning"
    /\ UNCHANGED <<request, next, stack, response, found>>
    /\ UNCHANGED sideVars
    /\ UNCHANGED routerVars

\* The apply call of the innermost waiting middleware returns: the middleware
\* runs its response side on the result and returns it (TraceMiddleware always
\* does), or, if it is the application's, possibly a Result of its own.
Return ==
    /\ pc = "returning" /\ stack # <<>>
    /\ LET current == stack[Len(stack)]
       IN  \E r \in {ret[1]} \cup (IF current.kind = "user" THEN OwnResults(current) ELSE {}):
             /\ ret' = Some(r)
             /\ log' = Append(log, Event("response", current.id, ret, Some(r)))
    /\ stack' = SubSeq(stack, 1, Len(stack) - 1)
    /\ UNCHANGED <<pc, request, next, response, found>>
    /\ UNCHANGED sideVars
    /\ UNCHANGED routerVars

\* Router::apply recovering a failure into a 500 response before it returns.
Deliver_recovering ==
    /\ pc = "returning" /\ stack = <<>>
    /\ response' = IF ret[1].ok THEN ret ELSE Some(Ok(INTERNAL_SERVER_ERROR, 0))
    /\ pc' = "done"
    /\ UNCHANGED <<request, next, stack, ret, log, found>>
    /\ UNCHANGED sideVars
    /\ UNCHANGED routerVars

\* The outermost next.apply returns: Router::apply, and with it Router::handle
\* or the future of RouterService::call, yields that Result as it is.
Deliver ==
    /\ pc = "returning" /\ stack = <<>>
    /\ response' = ret
    /\ pc' = "done"
    /\ UNCHANGED <<request, next, stack, ret, log, found>>
    /\ UNCHANGED sideVars
    /\ UNCHANGED routerVars

\* The invoker takes the Result; the request, its extensions and the Next view
\* are dropped, and the router is no longer borrowed.
Finish ==
    /\ pc = "done"
    /\ pc' = "idle"
    /\ request' = NoRequest
    /\ next' = NoNext
    /\ stack' = <<>>
    /\ ret' = None
    /\ response' = None
    /\ log' = <<>>
    /\ fragmentRuns' = 0
    /\ selected' = NoSelect
    /\ UNCHANGED <<found, tasks, server, stream, probe>>
    /\ UNCHANGED routerVars

\* The invoker drops the future of Router::apply at one of its await points:
\* the request, its extensions and the Next view are dropped with it.
Cancel ==
    /\ pc \in {"chain", "returning"}
    /\ pc' = "idle"
    /\ request' = NoRequest
    /\ next' = NoNext
    /\ stack' = <<>>
    /\ ret' = None
    /\ response' = None
    /\ log' = <<>>
    /\ fragmentRuns' = 0
    /\ selected' = NoSelect
    /\ UNCHANGED <<found, tasks, server, stream, probe>>
    /\ UNCHANGED routerVars

ChainNext ==
    \/ With(MaxMiddleware) \/ Fallback \/ Apply(ChainPaths, ChainMethods)
    \/ Forward \/ ShortCircuit \/ EndpointApply \/ Return \/ Deliver \/ Finish

SpecChain == Init /\ [][ChainNext]_vars

ApplyNext ==
    \/ Register(MaxApplyRoutes, ApplyPrefixes) \/ Prepare \/ With(MaxApplyMiddleware) \/ Fallback
    \/ Apply(ApplyPaths, ApplyMethods)
    \/ Forward \/ ShortCircuit \/ EndpointApply \/ Return \/ Deliver \/ Finish

SpecApply == Init /\ [][ApplyNext]_vars

\* Lookups and requests, handled or cancelled, on a router of any configuration.
FrameNext ==
    \/ RegisterAll(MaxApplyRoutes, ApplyPrefixes) \/ Prepare \/ With(MaxApplyMiddleware) \/ Fallback
    \/ Lookup \/ Apply(ChainPaths, ChainMethods)
    \/ Forward \/ ShortCircuit \/ EndpointApply \/ Return \/ Deliver \/ Finish \/ Cancel

SpecFrame == Init /\ [][FrameNext]_vars

-----------------------------------------------------------------------------
(* request/fragment.rs, request/mod.rs: reading the fragments of a request *)

\* Fragment::get(i) reading fragments_index one entry early.
Fragment_get_shifted(fragment, i) ==
    IF i >= 1 /\ i <= Len(fragment.fragments_index) /\ fragment.fragments_index[i] # None
    THEN LET r == fragment.fragments_index[i][1]
         IN  Some(SubSeq(fragment.base, r[1], r[2]))
    ELSE None

\* Fragment::get(i): the text of capture slot i, slot 0 being the first entry
\* of fragments_index; none when there is no such slot or it did not take part.
Fragment_get(fragment, i) ==
    IF i + 1 <= Len(fragment.fragments_index) /\ fragment.fragments_index[i + 1] # None
    THEN LET r == fragment.fragments_index[i + 1][1]
         IN  Some(SubSeq(fragment.base, r[1], r[2]))
    ELSE None

\* Fragment::name(n): the text of the capture named n.
Fragment_name(fragment, n) ==
    LET hits == {pair \in fragment.fragments_hash: pair[1] = n /\ pair[2] # None}
    IN  IF hits = {} THEN None
        ELSE LET r == (CHOOSE pair \in hits: TRUE)[2][1]
             IN  Some(SubSeq(fragment.base, r[1], r[2]))

\* The keys of FragmentSelect: a usize or a string.
Index(i) == [kind |-> "usize", i |-> i, n |-> <<>>]
Name(n) == [kind |-> "str", i |-> 0, n |-> n]

\* Fragment::select(key): by position for a usize, by name for a string.
Fragment_select(fragment, key) ==
    IF key.kind = "usize" THEN Fragment_get(fragment, key.i) ELSE Fragment_name(fragment, key.n)

\* Request::fragment_str(key): none without a Fragment extension.
fragment_str(req, key) ==
    IF req.fragment = None THEN None ELSE Fragment_select(req.fragment[1], key)

\* The templates and request paths of the examples, as strings.
USERS_UINT == <<"/","u","s","e","r","s","/","{","i","d",":","u","i","n","t","}">>
USERS_UINT_OEXT == <<"/","u","s","e","r","s","/","{","i","d",":","u","i","n","t","}","{","e","x","t",":","o","e","x","t","}">>
BETA_ID == <<"/","b","e","t","a","/","{","i","d","}">>
BETA_ID_STR == <<"/","b","e","t","a","/","{","i","d",":","s","t","r","}">>
GAMMA_ALL == <<"/","g","a","m","m","a","/","{","a","l","l",":","p","a","t","h","}">>
USERS_ID_ZZ == <<"/","u","s","e","r","s","/","{","i","d",":","z","z","}">>
USERS_UNCLOSED == <<"/","u","s","e","r","s","/","{","i","d">>
U_USER_ID == <<"/","u","/","{","u","s","e","r","_","i","d","}">>
P_USERS_42 == <<"/","u","s","e","r","s","/","4","2">>
P_USERS_ABC == <<"/","u","s","e","r","s","/","a","b","c">>
P_USERS_42_EXTRA == <<"/","u","s","e","r","s","/","4","2","/","e","x","t","r","a">>
P_USERS_42_JSON == <<"/","u","s","e","r","s","/","4","2",".","j","s","o","n">>
P_BETA_4444 == <<"/","b","e","t","a","/","4","4","4","4">>
P_GAMMA_ABC == <<"/","g","a","m","m","a","/","a","/","b","/","c">>

\* Templates, request paths and selection keys of the fragment specification.
FragPrefixes == { USERS_UINT, USERS_UINT_OEXT, BETA_ID, BETA_ID_STR, GAMMA_ALL,
                  USERS_ID_ZZ, USERS_UNCLOSED, U_USER_ID }
FragPaths == { P_USERS_42, P_USERS_ABC, P_USERS_42_EXTRA, P_USERS_42_JSON,
               P_BETA_4444, P_GAMMA_ABC }
FragMethods == {"GET"}
FragKeys == { Index(0), Index(1), Index(2), Index(3),
              Name(<<"i","d">>), Name(<<"e","x","t">>), Name(<<"a","l","l">>), Name(<<"z","z">>) }

\* The endpoint of the request in flight reads a fragment of the request.
Select ==
    \E key \in FragKeys:
        /\ pc = "chain" /\ next.middleware = <<>>
        /\ selected' = [key |-> Some(key), value |-> fragment_str(request, key)]
        /\ UNCHANGED <<found, fragmentRuns, tasks, server, stream, probe>>
        /\ UNCHANGED routerVars
        /\ UNCHANGED requestVars

FragmentNext ==
    \/ RegisterAll(MaxApplyRoutes, FragPrefixes) \/ Prepare \/ Apply(FragPaths, FragMethods)
    \/ Select \/ EndpointApply \/ Deliver \/ Finish

SpecFragment == Init /\ [][FragmentNext]_vars

-----------------------------------------------------------------------------
(* endpoints/scope.rs and a Router as an endpoint: chains behind the chain *)

MaxNestMiddleware == 2

\* The sequences over a set of at most n elements.
RECURSIVE SeqsUpTo(_, _)
SeqsUpTo(set, n) ==
    IF n = 0 THEN {<<>>}
    ELSE SeqsUpTo(set, n - 1) \cup {Append(q, x) : q \in SeqsUpTo(set, n - 1), x \in set}

\* scope().with(m1)...with(mk).then(e): the middleware in the order added,
\* numbered -1, -2, .. to tell them from the router's 1, 2, .., and e.
ScopeEndpoint(kinds, id) ==
    [kind |-> "scope", id |-> id,
     middleware |-> [k \in 1..Len(kinds) |-> [id |-> 0 - k, kind |-> kinds[k]]],
     endpoint |-> [kind |-> "route", id |-> id]]

\* A Router used as an endpoint: a router with one route at the template,
\* prepared, with no middleware and no fallback of its own.
RouterEndpoint(template, id) ==
    LET route == [path |-> Router_at(template), pattern |-> Pattern_new(Router_at(template)),
                  method |-> None, endpoint |-> [kind |-> "route", id |-> id]]
    IN  [kind |-> "router", id |-> id,
         routes |-> <<route>>, regex |-> <<route.pattern.regex>>,
         middleware |-> <<>>, fallback |-> None]

ALL_PATH == <<"/","{","a","l","l",":","p","a","t","h","}">>
NestPrefixes == {ALL_PATH}
NestPaths == {P_BETA_4444, P_GAMMA_ABC}
NestMethods == {"GET"}

\* The endpoints registered in the nesting specification: scopes of up to
\* MaxNestMiddleware TraceMiddleware, and a router.
NestEndpoints(id) ==
    {ScopeEndpoint(kinds, id) : kinds \in SeqsUpTo({"trace"}, MaxNestMiddleware)}
        \cup {RouterEndpoint(BETA_ID, id)}

\* Router::at(prefix).all(endpoint) with a scope or a router as the endpoint.
RegisterNested ==
    \E prefix \in NestPrefixes:
        \E endpoint \in NestEndpoints(Len(routes) + 1):
            /\ Free
            /\ Len(routes) < MaxApplyRoutes
            /\ LET path == Router_at(prefix)
                   pattern == Pattern_new(path)
               IN  IF pattern.ok
                   THEN /\ routes' = Append(routes, [path |-> path, pattern |-> pattern,
                                                     method |-> None, endpoint |-> endpoint])
                        /\ prepareRun' = 0
                        /\ UNCHANGED panicked
                   ELSE /\ panicked' = TRUE
                        /\ UNCHANGED <<routes, prepareRun>>
            /\ UNCHANGED <<regex, middleware, fallback, prepared, visible, found>>
            /\ UNCHANGED requestVars
            /\ UNCHANGED sideVars

\* ScopeEndpoint::apply with the scope's middleware taken last added first.
ScopeApply_reversed ==
    /\ pc = "chain" /\ next.middleware = <<>>
    /\ next.endpoint.kind = "scope"
    /\ next' = [middleware |-> [k \in 1..Len(next.endpoint.middleware) |->
                                  next.endpoint.middleware[Len(next.endpoint.middleware) + 1 - k]],
                endpoint |-> next.endpoint.endpoint]
    /\ UNCHANGED <<pc, request, stack, ret, response, log, found>>
    /\ UNCHANGED routerVars
    /\ UNCHANGED sideVars

\* ScopeEndpoint::apply: a Next view of the scope's middleware and endpoint,
\* applied to the request.
ScopeApply ==
    /\ pc = "chain" /\ next.middleware = <<>>
    /\ next.endpoint.kind = "scope"
    /\ next' = [middleware |-> next.endpoint.middleware, endpoint |-> next.endpoint.endpoint]
    /\ UNCHANGED <<pc, request, stack, ret, response, log, found>>
    /\ UNCHANGED routerVars
    /\ UNCHANGED sideVars

\* Router::apply of a router that is the endpoint of the chain: its own
\* lookup, Fragment::new for the route it selects, the fragment and the route
\* put in the request's extensions in place of those there, and a Next view of
\* its own middleware and endpoint.
RouterApply ==
    /\ pc = "chain" /\ next.middleware = <<>>
    /\ next.endpoint.kind = "router"
    /\ LET inner == next.endpoint
           route == lookup(inner.regex, inner.routes, request.path, request.method)
           fragment == IF route = None THEN None ELSE Fragment_new(request.path, inner.routes[route[1]])
       IN  /\ route # IndexPanic
           /\ request' = [request EXCEPT
                            !.route = IF route = None THEN @ ELSE route,
                            !.fragment = IF fragment = None THEN @ ELSE fragment]
           /\ fragmentRuns' = IF route = None THEN fragmentRuns ELSE fragmentRuns + 1
           /\ next' = [middleware |-> inner.middleware,
                       endpoint |-> IF route # None THEN inner.routes[route[1]].endpoint
                                    ELSE IF inner.fallback # None THEN inner.fallback[1]
                                    ELSE default_endpoint]
    /\ UNCHANGED <<pc, stack, ret, response, log, found, selected, tasks, server, stream, probe>>
    /\ UNCHANGED routerVars

NestNext ==
    \/ RegisterNested \/ Prepare \/ With(MaxApplyMiddleware)
    \/ Apply(NestPaths, NestMethods)
    \/ Forward \/ ShortCircuit \/ ScopeApply \/ RouterApply \/ EndpointApply
    \/ Return \/ Deliver \/ Finish

SpecNest == Init /\ [][NestNext]_vars

-----------------------------------------------------------------------------
(* router/service.rs: requests handled concurrently on one shared router *)

ServicePrefixes == {BETA_ID}
ServicePaths == {P_BETA_4444, <<"/","a","l","p","h","a">>}
ServiceMethods == {"GET"}

\* What a middleware of the application puts in the extensions of the request
\* it is given: data of its own and of that request.
Attached(current, req) == [by |-> current.id, path |-> req.path, method |-> req.method]

\* RouterService::call writing the route and the fragment of the new request
\* to every request in flight, as a slot shared by the tasks would.
TaskCall_shared(t) ==
    \E path \in ServicePaths, method \in ServiceMethods:
        LET route == lookup(regex, routes, path, method)
            fragment == IF route = None THEN None ELSE Fragment_new(path, routes[route[1]])
        IN  /\ pc = "idle" /\ ~panicked /\ prepareRun >= 1
            /\ tasks[t].pc = "idle"
            /\ route # IndexPanic
            /\ tasks' = [u \in DOMAIN tasks |->
                           IF u = t
                           THEN [pc |-> "chain",
                                 request |-> [path |-> path, method |-> method, peer |-> TRUE,
                                              route |-> route, fragment |-> fragment],
                                 extensions |-> <<>>,
                                 next |-> [middleware |-> middleware, endpoint |-> select_endpoint(route)],
                                 stack |-> <<>>, ret |-> None]
                           ELSE IF tasks[u].pc = "idle" THEN tasks[u]
                           ELSE [tasks[u] EXCEPT !.request.route = route,
                                                 !.request.fragment = fragment]]
            /\ UNCHANGED <<found, fragmentRuns, selected, server, stream, probe>>
            /\ UNCHANGED routerVars
            /\ UNCHANGED requestVars

\* RouterService::call on the task of a connection: the peer address is put
\* in the request, and Router::apply runs on the shared router up to
\* next.apply(request).  The service exists once listen has prepared the router.
TaskCall(t) ==
    \E path \in ServicePaths, method \in ServiceMethods:
        LET route == lookup(regex, routes, path, method)
            fragment == IF route = None THEN None ELSE Fragment_new(path, routes[route[1]])
        IN  /\ pc = "idle" /\ ~panicked /\ prepareRun >= 1
            /\ tasks[t].pc = "idle"
            /\ route # IndexPanic
            /\ tasks' = [tasks EXCEPT ![t] =
                           [pc |-> "chain",
                            request |-> [path |-> path, method |-> method, peer |-> TRUE,
                                         route |-> route, fragment |-> fragment],
                            extensions |-> <<>>,
                            next |-> [middleware |-> middleware, endpoint |-> select_endpoint(route)],
                            stack |-> <<>>, ret |-> None]]
            /\ UNCHANGED <<found, fragmentRuns, selected, server, stream, probe>>
            /\ UNCHANGED routerVars
            /\ UNCHANGED requestVars

\* Next::apply of task t with middleware remaining: the first runs its request
\* side, a middleware of the application putting its data in the request's
\* extensions, and calls apply on the view of the rest.
TaskForward(t) ==
    /\ tasks[t].pc = "chain" /\ tasks[t].next.middleware # <<>>
    /\ LET current == Head(tasks[t].next.middleware)
       IN  tasks' = [tasks EXCEPT
                       ![t].extensions = IF current.kind = "user"
                                         THEN Append(@, Attached(current, tasks[t].request))
                                         ELSE @,
                       ![t].stack = Append(@, current),
                       ![t].next.middleware = Tail(@)]
    /\ UNCHANGED <<found, fragmentRuns, selected, server, stream, probe>>
    /\ UNCHANGED routerVars
    /\ UNCHANGED requestVars

\* Next::apply of task t with no middleware remaining: the endpoint is applied.
TaskEndpoint(t) ==
    /\ tasks[t].pc = "chain" /\ tasks[t].next.middleware = <<>>
    /\ \E r \in EndpointResults(tasks[t].next.endpoint):
         tasks' = [tasks EXCEPT ![t].pc = "returning", ![t].ret = Some(r)]
    /\ UNCHANGED <<found, fragmentRuns, selected, server, stream, probe>>
    /\ UNCHANGED routerVars
    /\ UNCHANGED requestVars

\* The apply call of the innermost waiting middleware of task t returns, and
\* the middleware returns the Result it got, as TraceMiddleware and
\* StateMiddleware do.
TaskReturn(t) ==
    /\ tasks[t].pc = "returning" /\ tasks[t].stack # <<>>
    /\ tasks' = [tasks EXCEPT ![t].stack = SubSeq(@, 1, Len(@) - 1)]
    /\ UNCHANGED <<found, fragmentRuns, selected, server, stream, probe>>
    /\ UNCHANGED routerVars
    /\ UNCHANGED requestVars

\* The future of task t completes with the Result of the chain, or the
\* connection is closed and the future dropped at an await point: the request
\* and its extensions are dropped.
TaskFinish(t) ==
    /\ tasks[t].pc \in {"chain", "returning"}
    /\ tasks' = [tasks EXCEPT ![t] = NoTask]
    /\ UNCHANGED <<found, fragmentRuns, selected, server, stream, probe>>
    /\ UNCHANGED routerVars
    /\ UNCHANGED requestVars

ServiceNext ==
    \/ RegisterAll(MaxApplyRoutes, ServicePrefixes) \/ Prepare \/ With(MaxApplyMiddleware)
    \/ \E t \in 1..MaxTasks:
         TaskCall(t) \/ TaskForward(t) \/ TaskEndpoint(t) \/ TaskReturn(t) \/ TaskFinish(t)

SpecService == Init /\ [][ServiceNext]_vars

-----------------------------------------------------------------------------
(* Properties of lookup and prepare *)

UserId == <<"/","u","s","e","r","/","{","i","d","}">>
UserMe == <<"/","u","s","e","r","/","@","m","e">>
SlashAlpha == <<"/","a","l","p","h","a">>

\* The routes among the first n of the table whose pattern matches path and
\* whose method is unset or equal to method.
Candidates(n, path, method) ==
    {i \in 1..n: /\ is_match(routes[i].pattern.regex, path)
                 /\ routes[i].method \in {None, Some(method)}}

Latest(S) == IF S = {} THEN None ELSE Some(Max(S))

\* The router has been prepared since the last registration.
IsPrepared == prepareRun >= 1

\* C1: on a prepared router, for every path and method, lookup returns the
\* route with the largest registration index among the routes whose pattern
\* matches the path and whose method is unset or equal to the request method.
C1_LastRegisteredWins ==
    IsPrepared =>
        \A path \in Paths, method \in Methods:
            lookup(regex, routes, path, method) = Latest(Candidates(Len(routes), path, method))

\* /user/{id} then /user/@me for GET, prepared: GET /user/@me returned the second.
C1_Witness ==
    /\ IsPrepared /\ Len(routes) = 2
    /\ routes[1].path = UserId /\ routes[2].path = UserMe
    /\ routes[1].method = Some("GET") /\ routes[2].method = Some("GET")
    /\ found = [path |-> UserMe, method |-> "GET", route |-> Some(2)]

\* C2: lookup never returns a route registered for a method other than the
\* request's, and a route registered with no method is eligible for every
\* request method: when such a route is in the matcher and matches the path,
\* lookup returns a route for every method.
C2_MethodFiltering ==
    \A path \in Paths, method \in Methods:
        LET r == lookup(regex, routes, path, method)
        IN  /\ r # IndexPanic
            /\ r # None => routes[r[1]].method \in {None, Some(method)}
            /\ (\E i \in 1..visible: routes[i].method = None
                                     /\ is_match(routes[i].pattern.regex, path))
                  => r # None /\ is_match(routes[r[1]].pattern.regex, path)

\* A GET-only /alpha answered none for POST /alpha, while the any-method route
\* /user/@me of the same table is returned for the non-standard method TEST.
C2_Witness ==
    /\ IsPrepared /\ Len(routes) = 2
    /\ routes[1].path = SlashAlpha /\ routes[1].method = Some("GET")
    /\ routes[2].path = UserMe /\ routes[2].method = None
    /\ found = [path |-> SlashAlpha, method |-> "POST", route |-> None]
    /\ lookup(regex, routes, UserMe, "TEST") = Some(2)

\* C8: lookup considers exactly the routes registered before the most recent
\* prepare: its result is the latest eligible route among the first `visible`
\* routes, whatever has been registered since.
C8_PrepareGovernsVisibility ==
    \A path \in Paths, method \in Methods:
        lookup(regex, routes, path, method) = Latest(Candidates(visible, path, method))

\* A route registered after the last prepare matches the request of the last
\* lookup, which returned the older route.
C8_Witness ==
    /\ prepared /\ visible = 1 /\ Len(routes) = 2
    /\ 2 \in Candidates(2, found.path, found.method)
    /\ found.route = Some(1)

\* C10: a prepare that directly follows a prepare, the route set unchanged,
\* leaves the lookup result of every path and method as it was.
C10_PrepareIdempotent ==
    [][(prepareRun >= 1 /\ Prepare) =>
          \A path \in Paths, method \in Methods:
              lookup(regex', routes', path, method) = lookup(regex, routes, path, method)]_vars

\* Prepare ran twice in a row on a table whose lookups select routes.
C10_Witness ==
    /\ prepareRun = 2 /\ Len(routes) = 2
    /\ lookup(regex, routes, UserMe, "GET") = Some(2)
    /\ lookup(regex, routes, SlashAlpha, "GET") = Some(1)

-----------------------------------------------------------------------------
(* Properties of templates and fragments *)

\* The capture groups of a compiled pattern, in template order.
Groups(items) == SelectSeq(items, LAMBDA it: it.kind # "lit")

\* The number of path separators in a string, and among the literals of a
\* compiled pattern.
RECURSIVE Slashes(_)
Slashes(str) ==
    IF str = <<>> THEN 0 ELSE (IF Head(str) = "/" THEN 1 ELSE 0) + Slashes(Tail(str))
LiteralSlashes(items) == Len(SelectSeq(items, LAMBDA it: it.kind = "lit" /\ it.ch = "/"))

\* The route the request in flight was matched to.
Matched == routes[request.route[1]]

\* C11: a compiled template matches a path only as a whole.  The pattern of
\* /users/{id:uint} matches /users/42 and neither /users/abc nor
\* /users/42/extra; a pattern without a path placeholder matches only paths
\* with as many separators as the template has, at least as long as its
\* literal text; and the text a string placeholder took holds no separator.
C11_AnchoredMatching ==
    /\ \A i \in 1..Len(routes):
         LET rx == routes[i].pattern.regex
         IN  /\ routes[i].path = USERS_UINT =>
                   /\ is_match(rx, P_USERS_42)
                   /\ ~is_match(rx, P_USERS_ABC)
                   /\ ~is_match(rx, P_USERS_42_EXTRA)
             /\ \A path \in FragPaths:
                   is_match(rx, path) =>
                       /\ Len(path) >= Len(SelectSeq(rx, LAMBDA it: it.kind = "lit"))
                       /\ (\A k \in 1..Len(rx): rx[k].kind # "path")
                             => Slashes(path) = LiteralSlashes(rx)
    /\ (pc # "idle" /\ request.fragment # None) =>
         \A k \in 1..Len(Groups(Matched.pattern.regex)):
             LET text == Fragment_get(request.fragment[1], k)
             IN  (Groups(Matched.pattern.regex)[k].kind = "str" /\ text # None)
                     => Slashes(text[1]) = 0

\* /users/{id:uint}, prepared: /users/42 was dispatched to the route, and the
\* lookups of /users/abc and /users/42/extra give none.
C11_Witness ==
    /\ pc = "done" /\ IsPrepared /\ Len(routes) = 1 /\ routes[1].path = USERS_UINT
    /\ request.path = P_USERS_42 /\ request.route = Some(1)
    /\ lookup(regex, routes, P_USERS_ABC, "GET") = None
    /\ lookup(regex, routes, P_USERS_42_EXTRA, "GET") = None

\* The type tags of the placeholders of a template: the pattern capture of
\* every place of the template where PATTERN matches.
TypeTags(path) ==
    {PATTERN(path, p).pattern[1] :
        p \in {q \in 1..Len(path): PATTERN(path, q).found /\ PATTERN(path, q).pattern # None}}

\* The type tags of the specification's grammar, and those push_pattern knows.
GrammarTypes == { <<"s","t","r","i","n","g">>, <<"s">>, <<"u","i","n","t">>, <<"i","n","t">>,
                  <<"p","a","t","h">>, <<"u","u","i","d">>, <<"o","e","x","t">> }
KnownTypes == GrammarTypes \cup { <<"s","t","r">> }

\* C12 as claimed: a template with a type tag outside {string, s, uint, int,
\* path, uuid, oext} is never added to the route table.
C12_UnknownTypeFatal ==
    \A i \in 1..Len(routes): TypeTags(routes[i].path) \subseteq GrammarTypes

\* C12 as amended: a template with a type tag outside {string, s, str, uint,
\* int, path, uuid, oext} is never added to the route table and no compiled
\* pattern of the table or the matcher holds a failing sub-pattern; the failure
\* happens in the registration step, which leaves the table and the matcher
\* as they were, and never in prepare or while a request is handled.
C12_UnknownTypeFatalAtSetup ==
    /\ [](/\ \A i \in 1..Len(routes):
               /\ TypeTags(routes[i].path) \subseteq KnownTypes
               /\ routes[i].pattern.ok
               /\ \A k \in 1..Len(routes[i].pattern.regex): routes[i].pattern.regex[k].kind # "panic"
          /\ \A i \in 1..Len(regex): \A k \in 1..Len(regex[i]): regex[i][k].kind # "panic"
          /\ panicked => pc = "idle")
    /\ [][(~panicked /\ panicked') =>
              /\ RegisterAll(MaxApplyRoutes, FragPrefixes)
              /\ routes' = routes /\ regex' = regex /\ pc' = "idle"]_vars

\* The registration of /users/{id:zz} on a prepared router failed: the process
\* is down, and the table and the matcher are as they were, empty.
C12_Witness ==
    /\ panicked /\ prepared /\ routes = <<>> /\ regex = <<>>
    /\ pc = "idle" /\ Pattern_new(USERS_ID_ZZ).ok = FALSE

\* A template conforms to the placeholder grammar when every brace of it
\* belongs to a placeholder: each { starts a match of PATTERN and each } ends one.
WellFormed(path) ==
    /\ \A p \in 1..Len(path): path[p] = "{" => PATTERN(path, p).found
    /\ \A p \in 1..Len(path): path[p] = "}" => \E q \in 1..p: /\ PATTERN(path, q).found
                                                             /\ PATTERN(path, q).end = p

\* C13: a template that does not conform to the placeholder grammar, such as
\* /users/{id or /u/{user_id}, is never accepted as a route: every route of
\* the table has a well-formed template.
C13_MalformedTemplateFatal ==
    \A i \in 1..Len(routes): WellFormed(routes[i].path)

\* The path a compiled pattern and the fragments of a request spell out: the
\* literals of items k.. as they are and, for the g-th group on, the text
\* selected by its position; an absent optional extension spells nothing.
RECURSIVE Rebuild(_, _, _, _)
Rebuild(items, k, g, req) ==
    IF k > Len(items) THEN <<>>
    ELSE IF items[k].kind = "lit" THEN <<items[k].ch>> \o Rebuild(items, k + 1, g, req)
    ELSE LET text == fragment_str(req, Index(g))
         IN  (IF text = None THEN <<>>
              ELSE IF items[k].kind = "oext" THEN <<".">> \o text[1]
              ELSE text[1]) \o Rebuild(items, k + 1, g + 1, req)

\* The names of the placeholders of a compiled pattern.
GroupNames(items) ==
    {Groups(items)[k].name[1] : k \in {j \in 1..Len(Groups(items)): Groups(items)[j].name # None}}

C15_SlotZeroNotAddressable ==
    (pc # "idle" /\ request.route # None) =>
        /\ fragment_str(request, Index(0)) = None
        /\ selected.key = Some(Index(0)) => selected.value = None

\* C16: a template ending in an optional-extension placeholder matches every
\* path that its part before that placeholder matches; a request for such a
\* path is dispatched to the route's endpoint, its extension fragment is none
\* and its other fragments are still returned.  /users/42 on
\* /users/{id:uint}{ext:oext} gives id = 42 and no ext; /users/42.json gives
\* id = 42 and ext = json.
C16_OptionalExtension ==
    /\ \A i \in 1..Len(routes):
         LET rx == routes[i].pattern.regex
         IN  (rx # <<>> /\ rx[Len(rx)].kind = "oext") =>
                 \A path \in FragPaths:
                     is_match(SubSeq(rx, 1, Len(rx) - 1), path) => is_match(rx, path)
    /\ (pc # "idle" /\ request.route # None) =>
         LET groups == Groups(Matched.pattern.regex)
         IN  /\ next.endpoint = Matched.endpoint
             /\ \A k \in 1..Len(groups):
                  groups[k].kind # "oext" => fragment_str(request, Index(k)) # None
             /\ (Matched.path = USERS_UINT_OEXT /\ request.path = P_USERS_42) =>
                  /\ fragment_str(request, Name(<<"e","x","t">>)) = None
                  /\ fragment_str(request, Index(2)) = None
                  /\ fragment_str(request, Name(<<"i","d">>)) = Some(<<"4","2">>)
             /\ (Matched.path = USERS_UINT_OEXT /\ request.path = P_USERS_42_JSON) =>
                  /\ fragment_str(request, Name(<<"e","x","t">>)) = Some(<<"j","s","o","n">>)
                  /\ fragment_str(request, Name(<<"i","d">>)) = Some(<<"4","2">>)
    /\ \A i \in 1..Len(regex):
         (/\ i <= Len(routes) /\ routes[i].path = USERS_UINT_OEXT
          /\ regex[i] = routes[i].pattern.regex /\ Route_matches(routes[i], "GET"))
             => lookup(regex, routes, P_USERS_42, "GET") # None

\* /users/42 was dispatched to the endpoint of /users/{id:uint}{ext:oext},
\* which read the fragment ext and got none, and answered.
C16_Witness ==
    /\ pc = "done" /\ request.route = Some(1) /\ routes[1].path = USERS_UINT_OEXT
    /\ request.path = P_USERS_42
    /\ selected = [key |-> Some(Name(<<"e","x","t">>)), value |-> None]
    /\ response = Some(Ok(NO_CONTENT, 0))

-----------------------------------------------------------------------------
(* Properties of the middleware chain *)

Steps(kind) == {i \in 1..Len(log): log[i].step = kind}
IsErr(r) == r # None /\ ~r[1].ok

\* C3: when each of the n registered middleware forwards, the request sides
\* run in registration order 1..n, then the endpoint, then the response sides
\* in the order n..1; and the Result a middleware gets from its apply call is
\* the Result the step before it, the rest of the chain, returned.
C3_MiddlewareOrder ==
    LET n == Len(middleware)
    IN  /\ (pc = "done" /\ Steps("stop") = {}) =>
              /\ Len(log) = 2 * n + 1
              /\ \A k \in 1..n: /\ log[k].step = "request"
                                /\ log[k].id = k /\ middleware[k].id = k
              /\ log[n + 1].step = "endpoint"
              /\ \A k \in 1..n: /\ log[2 * n + 2 - k].step = "response"
                                /\ log[2 * n + 2 - k].id = k
        /\ \A i \in Steps("response"): i > 1 /\ log[i].got = log[i - 1].gave

\* Three middleware, the application's among them, all forwarded and the
\* request is done.
C3_Witness ==
    /\ pc = "done" /\ Len(middleware) = 3 /\ Steps("stop") = {}
    /\ middleware[2].kind = "user" /\ middleware[3].kind = "trace"
    /\ Len(log) = 7 /\ log[7].id = 1

\* C4: when middleware k returns without forwarding, no middleware registered
\* after k and not the endpoint runs for that request, and the Result k
\* returned is what middleware k - 1 gets from its apply call, or, for k = 1,
\* what the invoker of the chain gets.
C4_ShortCircuit ==
    \A i \in Steps("stop"):
        LET k == log[i].id
        IN  /\ Steps("endpoint") = {}
            /\ \A j \in 1..Len(log): log[j].id <= k
            /\ \A j \in (i + 1)..Len(log): log[j].step = "response"
            /\ i = k
            /\ (k > 1 /\ Len(log) > i) => /\ log[i + 1].id = k - 1
                                          /\ log[i + 1].got = log[i].gave
            /\ (k = 1 /\ pc = "done") => response = log[i].gave

\* The second of three middleware returned without forwarding and the request
\* is done: the third middleware and the endpoint are not in the history.
C4_Witness ==
    /\ pc = "done" /\ Len(middleware) = 3
    /\ Len(log) = 3 /\ log[2].step = "stop" /\ log[3].step = "response"
    /\ response = log[3].gave

\* C5: when a step returns an error, no middleware or endpoint starts after
\* it; the error is the Result the enclosing middleware gets from its apply
\* call, TraceMiddleware returns it as it got it, and when nothing encloses
\* the step, or every enclosing middleware returned what it got, the invoker
\* gets that error.
C5_FailurePropagates ==
    \A i \in 1..Len(log):
        IsErr(log[i].gave) =>
            /\ \A j \in (i + 1)..Len(log): log[j].step = "response"
            /\ i < Len(log) => log[i + 1].got = log[i].gave
            /\ \A j \in (i + 1)..Len(log):
                 middleware[log[j].id].kind = "trace" => log[j].gave = log[j].got
            /\ (pc = "done" /\ \A j \in (i + 1)..Len(log): log[j].gave = log[j].got)
                  => response = log[i].gave

\* The endpoint failed behind two middleware, the outer one TraceMiddleware,
\* and the invoker got the endpoint's error.
C5_Witness ==
    /\ pc = "done" /\ Len(middleware) = 2 /\ middleware[1].kind = "trace"
    /\ Len(log) = 5 /\ log[3].step = "endpoint" /\ log[3].gave = Some(Err(0))
    /\ response = Some(Err(0))

-----------------------------------------------------------------------------
(* Properties of Router::apply *)

Alpha_GET_only ==
    /\ Len(routes) = 1 /\ routes[1].path = SlashAlpha /\ routes[1].method = Some("GET")

\* C6: an error returned by a middleware or an endpoint is converted at the
\* Router boundary into a generic error response: Router::apply, and the
\* service call, never yield an error.
C6_RouterRecoversFailures ==
    pc = "done" =>
        /\ response[1].ok
        /\ (\E i \in 1..Len(log): IsErr(log[i].gave) /\ log[Len(log)].gave = log[i].gave)
              => response[1].status = INTERNAL_SERVER_ERROR

\* C7: when lookup returns none for the request, be it that no template
\* matches the path or that the matching templates are registered for other
\* methods, the endpoint of the chain is the fallback if one is set and the
\* default endpoint otherwise, and the default endpoint answers 500; a request
\* being handled always has an endpoint.
C7_NoRouteSelected ==
    pc # "idle" =>
        /\ next.endpoint.kind \in {"route", "fallback", "default"}
        /\ lookup(regex, routes, request.path, request.method) = None =>
              /\ request.route = None /\ request.fragment = None
              /\ fallback # None => next.endpoint = fallback[1]
              /\ fallback = None => next.endpoint = default_endpoint
        /\ \A i \in Steps("endpoint"):
              next.endpoint = default_endpoint =>
                  log[i].gave = Some(Ok(INTERNAL_SERVER_ERROR, 0))

\* POST /alpha on a prepared router whose only route is GET /alpha, a fallback
\* set: the fallback endpoint ran and the invoker got its 404.
C7_Witness ==
    /\ pc = "done" /\ Alpha_GET_only /\ IsPrepared /\ fallback # None
    /\ request.path = SlashAlpha /\ request.method = "POST"
    /\ next.endpoint.kind = "fallback" /\ Steps("endpoint") # {}
    /\ response = Some(Ok(NOT_FOUND, 0))

\* Every middleware that ran forwarded and returned the Result it got.
PassThrough ==
    /\ Steps("stop") = {}
    /\ \A i \in Steps("response"): log[i].gave = log[i].got

-----------------------------------------------------------------------------
(* Properties of scopes and nested routers *)

\* C17: during the handling of one request, a router nested as the endpoint
\* of another included, the pattern of a matched route is run on the path by
\* Fragment::new at most once.
C17_FragmentComputedOnce == fragmentRuns <= 1

\* The steps of the log at which a middleware started: its request side, be
\* it that it forwarded or that it returned of its own.
Starts == Steps("request") \cup Steps("stop")

\* The request in flight was dispatched to a route whose endpoint is a scope.
InScope ==
    /\ pc # "idle" /\ request.route # None /\ fragmentRuns <= 1
    /\ Matched.endpoint.kind = "scope"

\* C20: for a request dispatched to scope().with(m1)...with(mk).then(e) on a
\* router with middleware of its own, every router middleware has started
\* before any scope middleware starts, the scope middleware start in the order
\* they were added, and e runs after all of them; when a router middleware
\* returns without forwarding, no scope middleware and not e runs.
C20_ScopeOrdering ==
    InScope =>
        LET scoped == {i \in Starts: log[i].id < 0}
            own == {i \in Starts: log[i].id > 0}
        IN  /\ \A i \in own: log[i].id = i
            /\ scoped # {} => /\ Cardinality(own) = Len(middleware)
                              /\ \A i \in own: log[i].step = "request"
            /\ \A i \in scoped: /\ i = Len(middleware) + (0 - log[i].id)
                                /\ \A k \in 1..(0 - log[i].id) - 1:
                                     log[Len(middleware) + k].step = "request"
            /\ \A i \in Steps("endpoint"):
                 /\ Starts = 1..(i - 1)
                 /\ i = Len(middleware) + Len(Matched.endpoint.middleware) + 1
                 /\ \A j \in Starts: log[j].step = "request"
                 /\ next.endpoint = Matched.endpoint.endpoint
            /\ \A i \in Steps("stop"):
                 log[i].id > 0 => scoped = {} /\ Steps("endpoint") = {}

\* The router's middleware, then the two middleware of the scope, then the
\* scope's endpoint, and the three response sides: the request is done.
C20_Witness ==
    /\ InScope /\ pc = "done" /\ Len(middleware) = 1
    /\ Len(Matched.endpoint.middleware) = 2
    /\ Len(log) = 7 /\ log[4].step = "endpoint"
    /\ log[1].id = 1 /\ log[2].id = 0 - 1 /\ log[3].id = 0 - 2

-----------------------------------------------------------------------------
(* Properties of the router as shared state *)

\* The middleware of the router that have started for a task: those no longer
\* in its Next view.
Started(task) == Len(middleware) - Len(task.next.middleware)

\* C18: every request in flight has the route, the fragment and the endpoint
\* that lookup, Fragment::new and the router give for its own path and method,
\* the extension data put there by the middleware that started for it, on its
\* own path and method, and a Result of its own endpoint; and a step of one
\* task leaves every other task's request, extensions and Result as they were.
C18_ConcurrentRequestsIndependent ==
    /\ [](\A t \in DOMAIN tasks:
            tasks[t].pc # "idle" =>
                LET req == tasks[t].request
                    route == lookup(regex, routes, req.path, req.method)
                    users == SelectSeq([k \in 1..Started(tasks[t]) |-> middleware[k]],
                                       LAMBDA m: m.kind = "user")
                IN  /\ req.route = route
                    /\ req.fragment = IF route = None THEN None
                                      ELSE Fragment_new(req.path, routes[route[1]])
                    /\ tasks[t].next.endpoint = select_endpoint(route)
                    /\ tasks[t].extensions = [k \in 1..Len(users) |-> Attached(users[k], req)]
                    /\ tasks[t].ret # None => tasks[t].ret[1] \in EndpointResults(select_endpoint(route)))
    /\ [][\A t, u \in DOMAIN tasks:
            (t # u /\ tasks'[t] # tasks[t]) => tasks'[u] = tasks[u]]_vars

\* Two requests in flight on a router with the route /beta/{id} and a
\* middleware of the application: /beta/4444, matched, has its Result, and
\* /alpha, unmatched, is still in the chain.
C18_Witness ==
    /\ Len(routes) = 1 /\ routes[1].path = BETA_ID
    /\ Len(middleware) = 1 /\ middleware[1].kind = "user"
    /\ tasks[1].pc = "returning" /\ tasks[1].request.path = P_BETA_4444
    /\ tasks[1].request.route = Some(1) /\ tasks[1].ret = Some(Ok(NO_CONTENT, 0))
    /\ tasks[2].pc = "chain" /\ tasks[2].request.path = <<"/","a","l","p","h","a">>
    /\ tasks[2].request.route = None /\ Len(tasks[2].extensions) = 1

\* C19: a lookup, and every step of a request from Router::apply to the
\* delivery of its result or its cancellation, leaves the route table, the
\* combined matcher, the middleware list and the fallback as they were.
C19_HandlingLeavesRouterUnchanged ==
    [][(Lookup \/ pc # "idle" \/ pc' # "idle")
          => UNCHANGED <<routes, regex, middleware, fallback>>]_vars

\* After a lookup that returned a route, a request is done on the router,
\* which has a route, a middleware and a fallback and is prepared.
C19_Witness ==
    /\ pc = "done" /\ IsPrepared /\ Len(routes) = 1 /\ regex = <<routes[1].pattern.regex>>
    /\ Len(middleware) = 1 /\ fallback # None
    /\ found.route = Some(1) /\ request.route = Some(1)

-----------------------------------------------------------------------------
(* router/pattern.rs, router/route.rs: the uuid placeholder *)

\* The uuid route of the Path example and the request paths tried on it: the
\* nil UUID, a text that is no UUID, and a version 4 UUID.
ACTIONS_UUID == <<"/","a","c","t","i","o","n","s","/","{","i","d",":","u","u","i","d","}">>
P_ACTIONS_NIL == <<"/","a","c","t","i","o","n","s","/","0","0","0","0","0","0","0","0","-","0","0","0","0","-","0","0","0","0","-","0","0","0","0","-","0","0","0","0","0","0","0","0","0","0","0","0">>
P_ACTIONS_1 == <<"/","a","c","t","i","o","n","s","/","1">>
P_ACTIONS_V4 == <<"/","a","c","t","i","o","n","s","/","9","f","1","c","2","d","3","e","-","4","b","5","a","-","4","c","6","d","-","8","e","7","f","-","0","a","1","b","2","c","3","d","4","e","5","f">>

\* Requests on a router whose routes are the uuid route.
UuidNext ==
    \/ RegisterAll(MaxApplyRoutes, {ACTIONS_UUID}) \/ Prepare
    \/ Apply({P_ACTIONS_NIL, P_ACTIONS_1, P_ACTIONS_V4}, FragMethods)
    \/ Select \/ EndpointApply \/ Deliver \/ Finish

SpecUuid == Init /\ [][UuidNext]_vars

\* The uuid route is registered and prepared, and a request is in flight.
UuidRouted ==
    /\ pc # "idle"
    /\ Len(routes) >= 1 /\ routes[1].path = ACTIONS_UUID
    /\ Len(regex) = Len(routes)

\* C21: on the route /actions/{id:uuid} a request for the nil UUID
\* /actions/00000000-0000-0000-0000-000000000000, like one for any UUID in the
\* 36-character hyphenated form, is dispatched to the route's endpoint, and a
\* request for /actions/1 goes to the default endpoint and is answered 500.
C21_UuidPlaceholder ==
    UuidRouted =>
        /\ request.path \in {P_ACTIONS_NIL, P_ACTIONS_V4} =>
              /\ request.route # None
              /\ next.endpoint.kind = "route"
        /\ request.path = P_ACTIONS_1 =>
              /\ request.route = None
              /\ next.endpoint = default_endpoint
              /\ response # None => response = Some(Ok(INTERNAL_SERVER_ERROR, 0))

\* What the code does with the three paths: the version 4 UUID is dispatched to
\* the route, the nil UUID and /actions/1 to the default endpoint.
C21_UuidVersionFour ==
    UuidRouted =>
        /\ request.path = P_ACTIONS_V4 =>
              /\ request.route # None
              /\ fragment_str(request, Name(<<"i","d">>)) = Some(SubSeq(P_ACTIONS_V4, 10, 45))
        /\ request.path \in {P_ACTIONS_NIL, P_ACTIONS_1} =>
              /\ request.route = None
              /\ next.endpoint = default_endpoint
              /\ response # None => response = Some(Ok(INTERNAL_SERVER_ERROR, 0))

\* The nil UUID has been answered on the uuid route.
C21_NilAnswered ==
    UuidRouted /\ request.path = P_ACTIONS_NIL /\ pc = "done"

-----------------------------------------------------------------------------
(* router/mod.rs, router/service.rs: the termination signal of listen() *)

\* The number of termination_signal() calls made on one router.
MaxSignals == 2

\* The receiver the router holds in Router.terminate is dropped.
DropHeld(channels) ==
    [c \in 1..Len(channels) |->
        IF channels[c].receiver = "router" THEN [channels[c] EXCEPT !.receiver = "dropped"]
        ELSE channels[c]]

\* Router::termination_signal: watch::channel(false); the receiver replaces the
\* one in Router.terminate, which is dropped, and the sender goes to the caller.
\* `unseen` tells whether the channel's version differs from the one the
\* receiver saw last; `sent` is history: true has been published on the channel.
TerminationSignal ==
    /\ Free
    /\ Len(server.channels) < MaxSignals
    /\ server' = [server EXCEPT
            !.terminate = Some(Len(server.channels) + 1),
            !.channels = Append(DropHeld(server.channels),
                                [value |-> FALSE, unseen |-> FALSE, sender |-> "held",
                                 receiver |-> "router", sent |-> FALSE])]
    /\ UNCHANGED <<found, fragmentRuns, selected, tasks, stream, probe>>
    /\ UNCHANGED routerVars
    /\ UNCHANGED requestVars

\* The holder of a sender publishes a value: watch::Sender::send stores it and
\* bumps the version, or fails and stores nothing when the receiver is gone.
Send ==
    \E c \in 1..Len(server.channels), v \in BOOLEAN:
        /\ server.channels[c].sender = "held"
        /\ server' = IF server.channels[c].receiver = "dropped" THEN server
                     ELSE [server EXCEPT !.channels[c].value = v,
                                         !.channels[c].unseen = TRUE,
                                         !.channels[c].sent = @ \/ v]
        /\ UNCHANGED <<found, fragmentRuns, selected, tasks, stream, probe>>
        /\ UNCHANGED routerVars
        /\ UNCHANGED requestVars

\* The holder of a sender drops it.
DropSender ==
    \E c \in 1..Len(server.channels):
        /\ server.channels[c].sender = "held"
        /\ server' = [server EXCEPT !.channels[c].sender = "dropped"]
        /\ UNCHANGED <<found, fragmentRuns, selected, tasks, stream, probe>>
        /\ UNCHANGED routerVars
        /\ UNCHANGED requestVars

\* Router::listen(address) up to the await of the server.  An address that does
\* not parse ends it with InvalidAddress and the router is dropped; else the
\* router is prepared, the receiver is taken out of Router.terminate into the
\* termination future, and the server is started with that future.
Listen ==
    \E valid \in BOOLEAN:
        /\ Free
        /\ IF valid
           THEN /\ regex' = [i \in 1..Len(routes) |-> routes[i].pattern.regex]
                /\ prepared' = TRUE
                /\ visible' = Len(routes)
                /\ prepareRun' = IF prepareRun < 2 THEN prepareRun + 1 ELSE 2
                /\ server' = IF server.terminate = None
                             THEN [server EXCEPT !.pc = "pending"]
                             ELSE [server EXCEPT !.pc = "borrow",
                                                 !.rx = server.terminate,
                                                 !.terminate = None,
                                                 !.channels[server.terminate[1]].receiver = "listen"]
           ELSE /\ server' = [server EXCEPT !.pc = "refused", !.terminate = None,
                                            !.channels = DropHeld(server.channels)]
                /\ UNCHANGED <<regex, prepared, visible, prepareRun>>
        /\ UNCHANGED <<routes, middleware, fallback, panicked, found>>
        /\ UNCHANGED <<fragmentRuns, selected, tasks, stream, probe>>
        /\ UNCHANGED requestVars

\* The termination future at `if *tx.borrow() { break }`: with the value true
\* the future completes and the server begins its graceful shutdown.
Borrow ==
    /\ server.pc = "borrow"
    /\ server' = [server EXCEPT !.pc = IF server.channels[server.rx[1]].value
                                       THEN "shutdown" ELSE "changed"]
    /\ UNCHANGED <<found, fragmentRuns, selected, tasks, stream, probe>>
    /\ UNCHANGED routerVars
    /\ UNCHANGED requestVars

\* tx.changed() returning Err for a closed channel ending the loop as well.
Changed_closed_breaks ==
    /\ server.pc = "changed"
    /\ LET ch == server.channels[server.rx[1]]
       IN  /\ ch.unseen \/ ch.sender = "dropped"
           /\ server' = IF ch.unseen
                        THEN [server EXCEPT !.pc = "borrow", !.channels[server.rx[1]].unseen = FALSE]
                        ELSE [server EXCEPT !.pc = "shutdown"]
    /\ UNCHANGED <<found, fragmentRuns, selected, tasks, stream, probe>>
    /\ UNCHANGED routerVars
    /\ UNCHANGED requestVars

\* The termination future at tx.changed().await: Ok for a version not seen
\* yet, and the loop continues; Err once the sender is dropped with nothing
\* unseen, and the future is pending for ever; else it keeps waiting.
Changed ==
    /\ server.pc = "changed"
    /\ LET ch == server.channels[server.rx[1]]
       IN  /\ ch.unseen \/ ch.sender = "dropped"
           /\ server' = IF ch.unseen
                        THEN [server EXCEPT !.pc = "borrow", !.channels[server.rx[1]].unseen = FALSE]
                        ELSE [server EXCEPT !.pc = "pending"]
    /\ UNCHANGED <<found, fragmentRuns, selected, tasks, stream, probe>>
    /\ UNCHANGED routerVars
    /\ UNCHANGED requestVars

ListenNext ==
    \/ RegisterAll(MaxApplyRoutes, ServicePrefixes) \/ TerminationSignal \/ Send \/ DropSender
    \/ Listen \/ Borrow \/ Changed

SpecListen == Init /\ [][ListenNext]_vars

\* C22: the server begins its graceful shutdown only after true has been
\* published on the sender of the last termination_signal() call: never
\* without such a call, never after values of false only, and never because
\* the sender was dropped.
C22_ShutdownOnlyAfterTrue ==
    server.pc = "shutdown" =>
        /\ server.rx # None
        /\ server.channels[server.rx[1]].sent
        /\ server.rx[1] = Len(server.channels)

\* The server shuts down on the signal of the second of two senders.
C22_Witness ==
    /\ server.pc = "shutdown" /\ prepareRun >= 1
    /\ Len(server.channels) = 2 /\ server.channels[2].sent

-----------------------------------------------------------------------------
(* data.rs: StreamReader over the chunks of a body, DataStream with a limit *)

\* The bytes of the longest body and the size of the largest read buffer.
MaxBody == 3
MaxBuf == 2

\* The ways of cutting a sequence of bytes into non-empty chunks.
RECURSIVE Chunkings(_)
Chunkings(bytes) ==
    IF bytes = <<>> THEN {<<>>}
    ELSE UNION {{<<SubSeq(bytes, 1, k)>> \o rest :
                    rest \in Chunkings(SubSeq(bytes, k + 1, Len(bytes)))} : k \in 1..Len(bytes)}

\* The bodies: the bytes 1..n, so that each byte tells its place, in chunks.
Bodies == UNION {Chunkings([i \in 1..n |-> i]) : n \in 0..MaxBody}

\* StreamReader::poll_read into a buffer with k bytes remaining, the chunks of
\* the body being at hand: the new state, the chunks left, the bytes put.  In
\* State::Ready the bytes put are the next min(k, b.len() - start) of the
\* chunk; the state then becomes Pending if b.len() >= start, else it stays.
poll_read(state, body, k) ==
    LET Ready(b, start) ==
            LET len == IF k < Len(b) - start THEN k ELSE Len(b) - start
            IN  [bytes |-> SubSeq(b, start + 1, start + len),
                 state |-> IF Len(b) >= start + len THEN <<"Pending">>
                           ELSE <<"Ready", b, start + len>>]
    IN  CASE state[1] = "Ready" ->
                [state |-> Ready(state[2], state[3]).state, body |-> body,
                 bytes |-> Ready(state[2], state[3]).bytes]
          [] state[1] = "Pending" /\ body # <<>> ->
                [state |-> Ready(Head(body), 0).state, body |-> Tail(body),
                 bytes |-> Ready(Head(body), 0).bytes]
          [] OTHER -> [state |-> <<"Done">>, body |-> body, bytes |-> <<>>]

\* StreamReader::poll_done: done in State::Done; not done in State::Ready with
\* bytes left; else the next chunk is polled: none means done, and a chunk is
\* kept as Ready(v, 0), the answer being whether it is empty.
poll_done(state, body) ==
    IF state[1] = "Done" THEN [state |-> state, body |-> body, done |-> TRUE]
    ELSE IF state[1] = "Ready" /\ state[3] < Len(state[2])
    THEN [state |-> state, body |-> body, done |-> FALSE]
    ELSE IF body = <<>> THEN [state |-> <<"Done">>, body |-> body, done |-> TRUE]
    ELSE [state |-> <<"Ready", Head(body), 0>>, body |-> Tail(body),
          done |-> Len(Head(body)) = 0]

\* StreamReader::from(body), read on its own, or HttpEntity::data(limit):
\* DataStream::new(body, limit), the reader under Take(limit).
StreamOpen ==
    \E body \in Bodies, limit \in {None} \cup {Some(l) : l \in 0..MaxBody}:
        /\ stream.pc = "closed"
        /\ stream' = [pc |-> "reading", body |-> body, state |-> <<"Pending">>,
                      limit |-> limit, out |-> <<>>, result |-> None,
                      source |-> body, take |-> limit]
        /\ UNCHANGED <<found, fragmentRuns, selected, tasks, server, probe>>
        /\ UNCHANGED routerVars
        /\ UNCHANGED requestVars

\* One read of read_to_end, or of tokio::io::copy in DataStream::into, with a
\* buffer of k bytes.  Take::poll_read reads nothing at limit 0 and else lends
\* min(k, limit) bytes of the buffer and lowers the limit by the bytes read.
\* A read of no bytes ends read_to_end, which returns, and ends the copy.
StreamRead ==
    \E k \in 1..MaxBuf:
        /\ stream.pc = "reading"
        /\ LET lent == IF stream.limit = None THEN k
                       ELSE IF stream.limit[1] < k THEN stream.limit[1] ELSE k
               r == IF lent = 0 THEN [state |-> stream.state, body |-> stream.body, bytes |-> <<>>]
                    ELSE poll_read(stream.state, stream.body, lent)
           IN  stream' = [stream EXCEPT
                    !.state = r.state,
                    !.body = r.body,
                    !.out = @ \o r.bytes,
                    !.limit = IF @ = None THEN None ELSE Some(@[1] - Len(r.bytes)),
                    !.pc = IF r.bytes # <<>> THEN "reading"
                           ELSE IF stream.limit = None THEN "done" ELSE "copied",
                    !.result = IF r.bytes = <<>> /\ stream.limit = None
                               THEN Some([ok |-> TRUE, bytes |-> stream.out]) ELSE None]
        /\ UNCHANGED <<found, fragmentRuns, selected, tasks, server, probe>>
        /\ UNCHANGED routerVars
        /\ UNCHANGED requestVars

\* DataStream::into after the copy, and into_bytes: limit_exceeded is
\* !is_done(); the transfer is complete when the limit was not exceeded, and
\* into_bytes gives the bytes copied when complete and an error when not.
IntoBytes ==
    /\ stream.pc = "copied"
    /\ LET d == poll_done(stream.state, stream.body)
       IN  stream' = [stream EXCEPT
                !.state = d.state,
                !.body = d.body,
                !.pc = "done",
                !.result = Some(IF d.done THEN [ok |-> TRUE, bytes |-> stream.out]
                                ELSE [ok |-> FALSE, bytes |-> <<>>])]
    /\ UNCHANGED <<found, fragmentRuns, selected, tasks, server, probe>>
    /\ UNCHANGED routerVars
    /\ UNCHANGED requestVars

\* The stream and what was read from it are dropped.
StreamDrop ==
    /\ stream.pc = "done"
    /\ stream' = NoStream
    /\ UNCHANGED <<found, fragmentRuns, selected, tasks, server, probe>>
    /\ UNCHANGED routerVars
    /\ UNCHANGED requestVars

StreamNext == StreamOpen \/ StreamRead \/ IntoBytes \/ StreamDrop

SpecStream == Init /\ [][StreamNext]_vars

\* The bytes of a body, chunk after chunk.
RECURSIVE Flatten(_)
Flatten(chunks) == IF chunks = <<>> THEN <<>> ELSE Head(chunks) \o Flatten(Tail(chunks))

\* C23: into_bytes on a DataStream with limit L over a body of n bytes fails
\* when n > L and gives exactly the n bytes of the body when n <= L, however
\* the body is cut into chunks.
C23_BodySizeLimit ==
    (stream.pc = "done" /\ stream.take # None) =>
        IF Len(Flatten(stream.source)) > stream.take[1]
        THEN ~stream.result[1].ok
        ELSE stream.result[1] = [ok |-> TRUE, bytes |-> Flatten(stream.source)]

\* C24: reading a StreamReader to the end of the stream gives every byte of
\* the body once and in order, whatever the chunks of the body and the sizes
\* of the read buffers; an empty body gives no bytes.
C24_ReaderDeliversEveryByte ==
    (stream.pc = "done" /\ stream.take = None) =>
        stream.result[1] = [ok |-> TRUE, bytes |-> Flatten(stream.source)]

-----------------------------------------------------------------------------
(* endpoints/dir.rs: the path a DirEndpoint resolves a request to *)

\* The length of the longest fragment handed to the endpoint.
MaxFragment == 4

\* str::split(c): the pieces of s between the occurrences of c.
RECURSIVE Split(_, _)
Split(s, c) ==
    IF \A i \in 1..Len(s): s[i] # c THEN <<s>>
    ELSE LET i == CHOOSE i \in 1..Len(s): s[i] = c /\ \A j \in 1..(i - 1): s[j] # c
         IN  <<SubSeq(s, 1, i - 1)>> \o Split(SubSeq(s, i + 1, Len(s)), c)

\* PathBuf::push(p) for a p without separators.  A separator is put before p
\* unless the buffer ends with one; built for Windows, the buffer is replaced
\* by a p that starts with a drive prefix, the separator is a backslash, and
\* none is put after a buffer that is a drive prefix alone.
PathBuf_push(buffer, p, windows) ==
    LET drive(t) == Len(t) >= 2 /\ t[1] \in Alpha /\ t[2] = ":"
        seps == IF windows THEN {"/", "\\"} ELSE {"/"}
        need_sep == /\ buffer # <<>> /\ buffer[Len(buffer)] \notin seps
                    /\ ~(windows /\ drive(buffer) /\ Len(buffer) = 2)
    IN  IF windows /\ drive(p) THEN p
        ELSE IF need_sep THEN buffer \o <<IF windows THEN "\\" ELSE "/">> \o p
        ELSE buffer \o p

\* request.for_each(|p| buffer.push(p)) over the segments kept by the filter.
RECURSIVE PushAll(_, _, _)
PushAll(buffer, segments, windows) ==
    IF segments = <<>> THEN buffer
    ELSE PushAll(PathBuf_push(buffer, Head(segments), windows), Tail(segments), windows)

\* resolve_path(param, base)
resolve_path(param, base, windows) ==
    IF param = None THEN None
    ELSE LET split == Split(param[1], "/")
             is_invalid == \E i \in 1..Len(split):
                              \/ split[i] = <<".", ".">>
                              \/ \E j \in 1..Len(split[i]): split[i][j] = "\\"
             kept == SelectSeq(split, LAMBDA q: q # <<>> /\ q # <<".">>)
         IN  IF is_invalid THEN None ELSE Some(PushAll(base, kept, windows))

\* The base of the dir example, and the fragments: none for a route without a
\* placeholder, else a non-empty text.
PUBLIC == <<"p","u","b","l","i","c","/">>
DirParams ==
    {None} \cup {Some(q) : q \in SeqsUpTo({"a", ".", "/", "\\", ":"}, MaxFragment) \ {<<>>}}

\* DirEndpoint::apply: 404 when resolve_path gives none, else resolve_file on
\* the path, which asks the file system and answers by what it finds there.
DirApply ==
    \E param \in DirParams, windows \in BOOLEAN:
        LET path == resolve_path(param, PUBLIC, windows)
        IN  /\ probe = NoProbe
            /\ probe' = [call |-> "dir",
                         args |-> [param |-> param, base |-> PUBLIC, windows |-> windows],
                         result |-> [path |-> path, resolve_file |-> path # None,
                                     status |-> IF path = None THEN Some(NOT_FOUND) ELSE None]]
            /\ UNCHANGED <<found, fragmentRuns, selected, tasks, server, stream>>
            /\ UNCHANGED routerVars
            /\ UNCHANGED requestVars

SpecDir == Init /\ [][DirApply]_vars

\* The names a path goes through, in order.
RECURSIVE Components(_)
Components(path) ==
    IF \A i \in 1..Len(path): path[i] \notin {"/", "\\"}
    THEN IF path = <<>> THEN <<>> ELSE <<path>>
    ELSE LET i == CHOOSE i \in 1..Len(path):
                    path[i] \in {"/", "\\"} /\ \A j \in 1..(i - 1): path[j] \notin {"/", "\\"}
         IN  (IF i = 1 THEN <<>> ELSE <<SubSeq(path, 1, i - 1)>>)
                \o Components(SubSeq(path, i + 1, Len(path)))

\* C25: a missing fragment, and a fragment with a segment .. or a segment
\* holding a backslash, is answered 404 with no call of resolve_file; for every
\* other fragment the resolved path is the base followed by the fragment's
\* non-empty segments other than ".", in order, so it lies inside the base.
C25_StaysInsideBase ==
    probe.call = "dir" =>
        LET param == probe.args.param
            segments == IF param = None THEN <<>> ELSE Split(param[1], "/")
            bad == \E i \in 1..Len(segments):
                      \/ segments[i] = <<".", ".">>
                      \/ \E j \in 1..Len(segments[i]): segments[i][j] = "\\"
        IN  IF param = None \/ bad
            THEN /\ probe.result.status = Some(NOT_FOUND)
                 /\ ~probe.result.resolve_file
            ELSE /\ probe.result.path # None
                 /\ Components(probe.result.path[1]) =
                        Components(probe.args.base)
                            \o SelectSeq(segments, LAMBDA q: q # <<>> /\ q # <<".">>)

-----------------------------------------------------------------------------
(* request/remote.rs: the remote address of a request, by trusted source *)

\* The number of sources added to one RemoteAddress.
MaxSources == 2

\* str::trim, on texts whose only white space is the space.
RECURSIVE Trim(_)
Trim(s) ==
    IF s # <<>> /\ s[1] = " " THEN Trim(Tail(s))
    ELSE IF s # <<>> /\ s[Len(s)] = " " THEN Trim(SubSeq(s, 1, Len(s) - 1))
    ELSE s

\* str::parse::<IpAddr>() on a text without ':', which can only be an IPv4
\* address: four decimal numbers of at most 255, written without leading
\* zeros and separated by dots.  The address is given by its four octets.
ParseIp(s) ==
    LET parts == Split(s, ".")
        digits == <<"0","1","2","3","4","5","6","7","8","9">>
        val(c) == (CHOOSE i \in 1..10: digits[i] = c) - 1
        RECURSIVE number(_)
        number(t) == IF t = <<>> THEN 0 ELSE 10 * number(SubSeq(t, 1, Len(t) - 1)) + val(t[Len(t)])
        octet(t) == /\ Len(t) \in 1..3 /\ \A i \in 1..Len(t): t[i] \in Digit
                    /\ (Len(t) > 1 => t[1] # "0")
                    /\ number(t) <= 255
    IN  IF Len(parts) = 4 /\ \A i \in 1..4: octet(parts[i])
        THEN Some([i \in 1..4 |-> number(parts[i])])
        ELSE None

\* header_all(name) .. flat_map(|s| s.split(c)).map(str::trim)
RECURSIVE SplitAll(_, _)
SplitAll(values, c) ==
    IF values = <<>> THEN <<>>
    ELSE [i \in 1..Len(Split(Head(values), c)) |-> Trim(Split(Head(values), c)[i])]
            \o SplitAll(Tail(values), c)

\* The choice of an entry by an isize index: nth(index) from the front for
\* index >= 0, nth_back(|index| - 1) from the back for index < 0.
Nth(entries, index) ==
    LET at == IF index >= 0 THEN index + 1 ELSE Len(entries) + 1 + index
    IN  IF at \in 1..Len(entries) THEN Some(entries[at]) ELSE None

\* x_forwarded_for_header(request, index)
x_forwarded_for_header(req, index) ==
    LET entry == Nth(SplitAll(req.x_forwarded_for, ","), index)
    IN  IF entry = None THEN None ELSE ParseIp(entry[1])

\* What indexing Captures by a group the pattern does not have gives: a panic.
GroupPanic == <<"panic", "no group at index">>

\* forwarded_header(request, index): of each element of the header, the value
\* of the first key=value pair whose key is `for` in any case; the chosen one
\* goes through parse_ip.  SPECIAL_TOKEN, ^"[(.+)]"$, matches a quoted single
\* character out of ( . + ) and has no capture group, so cap[1] panics.
forwarded_header(req, index) ==
    LET elements == SplitAll(req.forwarded, ",")
        pairs(e) == SelectSeq(SplitAll(<<e>>, ";"), LAMBDA q: \E i \in 1..Len(q): q[i] = "=")
        key(q) == Split(q, "=")[1]
        value(q) == SubSeq(q, Len(key(q)) + 2, Len(q))
        is_for(q) == /\ Len(key(q)) = 3 /\ key(q)[1] \in {"f", "F"}
                     /\ key(q)[2] \in {"o", "O"} /\ key(q)[3] \in {"r", "R"}
        has_for(e) == SelectSeq(pairs(e), is_for) # <<>>
        for_of(e) == value(Head(SelectSeq(pairs(e), is_for)))
        ffor == [i \in 1..Len(SelectSeq(elements, has_for)) |->
                    for_of(SelectSeq(elements, has_for)[i])]
        parse_ip(t) ==
            LET u == Trim(t)
            IN  IF Len(u) = 3 /\ u[1] = "\"" /\ u[2] \in {"(", ".", "+", ")"} /\ u[3] = "\""
                THEN GroupPanic
                ELSE ParseIp(u)
        entry == Nth(ffor, index)
    IN  IF entry = None THEN None ELSE parse_ip(entry[1])

\* RemoteAddressSource::apply(request)
RemoteAddressSource_apply(source, req) ==
    CASE source.kind = "XForwardedFor" -> x_forwarded_for_header(req, source.index)
      [] source.kind = "Forwarded" -> forwarded_header(req, source.index)
      [] source.kind = "Header" ->
            LET parsed == SelectSeq(req.header, LAMBDA v: ParseIp(v) # None)
            IN  IF parsed = <<>> THEN None ELSE ParseIp(Head(parsed))
      [] OTHER -> req.peer_addr

\* RemoteAddress::apply: the sources in the order added, up to the first that
\* gives an address; a panic in a source that is reached ends the call.
RemoteAddress_apply(trusted_sources, req) ==
    LET reached == {i \in 1..Len(trusted_sources):
                        /\ RemoteAddressSource_apply(trusted_sources[i], req) # None
                        /\ \A j \in 1..(i - 1):
                              RemoteAddressSource_apply(trusted_sources[j], req) = None}
    IN  IF reached = {} THEN None
        ELSE RemoteAddressSource_apply(trusted_sources[CHOOSE i \in reached: TRUE], req)

\* trust_forwarded_for(0 / -1), trust_forwarded(0), trust_cloudflare_header,
\* trust_peer_address.
Sources ==
    { [kind |-> "XForwardedFor", index |-> 0], [kind |-> "XForwardedFor", index |-> 0 - 1],
      [kind |-> "Forwarded", index |-> 0], [kind |-> "Header", index |-> 0],
      [kind |-> "PeerAddress", index |-> 0] }

\* The header values of the requests.
XFF_DOC == <<"1",".","1",".","1",".","1",","," ","2",".","2",".","2",".","2",","," ","3",".","3",".","3",".","3">>
XFF_BAD == <<"u","n","k","n","o","w","n">>
FORWARDED_FOR == <<"F","o","r","=","3",".","3",".","3",".","3",";","p","r","o","t","o","=","h","t","t","p">>
FORWARDED_DOT == <<"f","o","r","=","\"",".","\"">>
CF_IP == <<"4",".","4",".","4",".","4">>

\* Requests: the values of X-Forwarded-For, of Forwarded and of the trusted
\* header, and the peer address.
Requests ==
    [ x_forwarded_for : {<<>>, <<XFF_DOC>>, <<XFF_BAD>>},
      forwarded : {<<>>, <<FORWARDED_FOR>>, <<FORWARDED_DOT>>},
      header : {<<>>, <<CF_IP>>},
      peer_addr : {None, Some(<<5, 5, 5, 5>>)} ]

\* request.remote_address(), the trust_* calls, and apply().
RemoteApply ==
    \E trusted_sources \in SeqsUpTo(Sources, MaxSources), req \in Requests:
        /\ probe = NoProbe
        /\ probe' = [call |-> "remote",
                     args |-> [trusted_sources |-> trusted_sources, request |-> req],
                     result |-> RemoteAddress_apply(trusted_sources, req)]
        /\ UNCHANGED <<found, fragmentRuns, selected, tasks, server, stream>>
        /\ UNCHANGED routerVars
        /\ UNCHANGED requestVars

SpecRemote == Init /\ [][RemoteApply]_vars

\* C26: apply returns the address of the first source, in the order added,
\* that has a parseable address in the request, and none exactly when no
\* source added has one; a later source never overrides an earlier one.
C26_SourcePriority ==
    probe.call = "remote" =>
        LET sources == probe.args.trusted_sources
            addr(i) == RemoteAddressSource_apply(sources[i], probe.args.request)
            has(i) == addr(i) # None /\ addr(i) # GroupPanic
            first == {i \in 1..Len(sources): has(i) /\ \A j \in 1..(i - 1): ~has(j)}
        IN  IF first = {} THEN probe.result = None
            ELSE probe.result = addr(CHOOSE i \in first: TRUE)

-----------------------------------------------------------------------------
(* router/mod.rs, router/route.rs: the prefix of a nested Path *)

\* The number of at() calls nested to reach one Path.
MaxDepth == 2

\* The texts handed to Router::at and Path::at.
SLASH_USER == <<"/","u","s","e","r">>
SLASH_ID == <<"/","{","i","d","}">>
Extensions ==
    { <<>>, <<"/">>, <<"i","d">>, <<"/","i","d">>, SLASH_USER, <<"/","u","s","e","r","/">>,
      <<"u","s","e","r","/">>, SLASH_ID, <<"/","/","a">> }

\* Router::at(e1) followed by Path::at(e2), ..: the prefix of the last Path.
RECURSIVE Path_at(_, _)
Path_at(prefix, paths) ==
    IF paths = <<>> THEN prefix
    ELSE Path_at(join_paths(prefix, Head(paths)), Tail(paths))

\* http.at(e1).at(e2)...all(endpoint), or the same through under(): the Paths
\* are created one from the other and the last one registers a route.
PathAt ==
    \E paths \in SeqsUpTo(Extensions, MaxDepth) \ {<<>>}:
        /\ Free
        /\ routes = <<>> /\ probe = NoProbe
        /\ LET prefix == Path_at(<<>>, paths)
               pattern == Pattern_new(prefix)
           IN  /\ probe' = [call |-> "at", args |-> paths, result |-> Some(prefix)]
               /\ IF pattern.ok
                  THEN /\ routes' = <<[path |-> prefix, pattern |-> pattern, method |-> None,
                                       endpoint |-> [kind |-> "route", id |-> 1]]>>
                       /\ prepareRun' = 0
                       /\ UNCHANGED panicked
                  ELSE /\ panicked' = TRUE
                       /\ UNCHANGED <<routes, prepareRun>>
        /\ UNCHANGED <<regex, middleware, fallback, prepared, visible, found>>
        /\ UNCHANGED <<fragmentRuns, selected, tasks, server, stream>>
        /\ UNCHANGED requestVars

JoinNext == PathAt \/ Prepare

SpecJoin == Init /\ [][JoinNext]_vars

\* The base without one trailing '/', one '/', the extension without one
\* leading '/', for each text in turn, starting from the empty base.
RECURSIVE Joined(_, _)
Joined(base, paths) ==
    IF paths = <<>> THEN base
    ELSE LET b == IF base # <<>> /\ base[Len(base)] = "/"
                  THEN SubSeq(base, 1, Len(base) - 1) ELSE base
             e == IF Head(paths) # <<>> /\ Head(paths)[1] = "/"
                  THEN Tail(Head(paths)) ELSE Head(paths)
         IN  Joined(b \o <<"/">> \o e, Tail(paths))

\* C27: the prefix of a Path reached through any nesting of at() is, join by
\* join, the base without one trailing '/', one '/', and the extension without
\* one leading '/'; it starts with '/', every route of the table has such a
\* template, and at("/user").at("/{id}") gives /user/{id}.
C27_PathJoining ==
    /\ \A i \in 1..Len(routes): routes[i].path # <<>> /\ routes[i].path[1] = "/"
    /\ probe.call = "at" =>
          /\ probe.result = Some(Joined(<<>>, probe.args))
          /\ probe.result[1][1] = "/"
          /\ probe.args = <<SLASH_USER, SLASH_ID>> =>
                probe.result = Some(<<"/","u","s","e","r","/","{","i","d","}">>)

\* The nested registration of the Path::at example.
C27_Witness ==
    /\ probe.call = "at" /\ probe.args = <<SLASH_USER, SLASH_ID>>
    /\ Len(routes) = 1 /\ routes[1].path = <<"/","u","s","e","r","/","{","i","d","}">>
    /\ prepared

====
